---- MODULE Spec2Model ----
(***************************************************************************)
(* A model of the ADK middleware of ag-ui: the Event Translator            *)
(* (event_translator.py), the Session Manager (session_manager.py) and the *)
(* Run Orchestrator (adk_agent.py).                                        *)
(*                                                                         *)
(* The translator is written as operators over a translator-state record,  *)
(* so that the same translation is used by the translator's own            *)
(* specification (SpecTr) and by the orchestrator's background task.       *)
(***************************************************************************)
EXTENDS Integers, Sequences, FiniteSets, TLC

None == "none"

(***************************************************************************)
(* UIP events.  One record shape for all of them: id is the message id,    *)
(* the tool-call id or the error code; delta is the text delta, the        *)
(* serialized arguments or the tool name.                                  *)
(***************************************************************************)
Ev(t, i, d) == [type |-> t, id |-> i, delta |-> d]

TextTypes == {"TEXT_MESSAGE_START", "TEXT_MESSAGE_CONTENT", "TEXT_MESSAGE_END"}
ToolTypes == {"TOOL_CALL_START", "TOOL_CALL_ARGS", "TOOL_CALL_END", "TOOL_CALL_RESULT"}

(***************************************************************************)
(* ARP events.  A part is text XOR function call XOR function response.    *)
(* Text is a sequence of tokens; the empty text is << >>.                  *)
(***************************************************************************)
TextPart(t) == [kind |-> "text", text |-> t, id |-> None, args |-> FALSE]
CallPart(c, a) == [kind |-> "fc", text |-> << >>, id |-> c, args |-> a]
RespPart(c) == [kind |-> "fr", text |-> << >>, id |-> c, args |-> FALSE]

Arp(parts, partial, tc, final, fin, lro) ==
    [id |-> None, author |-> "model", parts |-> parts, partial |-> partial,
     turn_complete |-> tc, final |-> final, finish_reason |-> fin,
     lro_ids |-> lro, state_delta |-> FALSE, state_snapshot |-> FALSE,
     custom_data |-> FALSE]

RECURSIVE SelectParts(_, _)
SelectParts(parts, kind) ==
    IF parts = << >> THEN << >>
    ELSE (IF Head(parts).kind = kind THEN <<Head(parts)>> ELSE << >>)
         \o SelectParts(Tail(parts), kind)

\* adk_event.get_function_calls(): the function-call parts, in order
GetFunctionCalls(e) == SelectParts(e.parts, "fc")

\* adk_event.get_function_responses(): the function-response parts, in order
GetFunctionResponses(e) == SelectParts(e.parts, "fr")

\* "".join(part.text for part in parts if part.text)
RECURSIVE CombinedText(_)
CombinedText(parts) ==
    IF parts = << >> THEN << >>
    ELSE (IF Head(parts).kind = "text" THEN Head(parts).text ELSE << >>)
         \o CombinedText(Tail(parts))

\* text_parts is non-empty: some part has a truthy text
HasTextParts(parts) ==
    \E i \in 1..Len(parts) : parts[i].kind = "text" /\ parts[i].text # << >>

(***************************************************************************)
(* EventTranslator state (EventTranslator.__init__).  uuid counts the      *)
(* message ids drawn from uuid4: every draw is fresh.                      *)
(***************************************************************************)
NewTranslator ==
    [is_streaming |-> FALSE, streaming_message_id |-> None,
     current_stream_text |-> << >>, last_streamed_text |-> None,
     last_streamed_run_id |-> None, long_running_tool_ids |-> << >>,
     uuid |-> 0]

\* The result of a translator call: the new state and the events yielded
Res(tr, out) == [tr |-> tr, out |-> out]

InSeq(x, s) == \E i \in 1..Len(s) : s[i] = x

\* EventTranslator.force_close_streaming_message
ForceCloseNone(tr) == Res(tr, << >>)

ForceCloseMut(tr) ==
    IF tr.is_streaming /\ tr.streaming_message_id # None
    THEN Res(tr, <<Ev("TEXT_MESSAGE_END", tr.streaming_message_id, << >>)>>)
    ELSE Res(tr, << >>)

ForceClose(tr) ==
    IF tr.is_streaming /\ tr.streaming_message_id # None
    THEN Res([tr EXCEPT !.current_stream_text = << >>,
                        !.streaming_message_id = None,
                        !.is_streaming = FALSE],
             <<Ev("TEXT_MESSAGE_END", tr.streaming_message_id, << >>)>>)
    ELSE Res(tr, << >>)

\* The state saved when a stream ends: the streamed text, when non-empty,
\* becomes the de-duplication snapshot
SnapshotStream(tr, run_id) ==
    IF tr.current_stream_text # << >>
    THEN [tr EXCEPT !.last_streamed_text = tr.current_stream_text,
                    !.last_streamed_run_id = run_id]
    ELSE tr

\* _translate_text_content, the is_final_response branch
FinalTextNoDedup(tr, e, run_id) ==
    IF tr.is_streaming /\ tr.streaming_message_id # None
    THEN Res([SnapshotStream(tr, run_id) EXCEPT !.current_stream_text = << >>,
                                                 !.streaming_message_id = None,
                                                 !.is_streaming = FALSE],
             <<Ev("TEXT_MESSAGE_END", tr.streaming_message_id, << >>)>>)
    ELSE Res([tr EXCEPT !.current_stream_text = << >>,
                        !.last_streamed_text = None,
                        !.last_streamed_run_id = None],
             <<Ev("TEXT_MESSAGE_START", e.id, << >>),
               Ev("TEXT_MESSAGE_CONTENT", e.id, CombinedText(e.parts)),
               Ev("TEXT_MESSAGE_END", e.id, << >>)>>)

\* The branch that sends the final response's text again after closing
\* the open stream
FinalTextReemit(tr, e, run_id) ==
    Res([SnapshotStream(tr, run_id) EXCEPT !.current_stream_text = << >>,
                                            !.streaming_message_id = None,
                                            !.is_streaming = FALSE],
        (IF tr.is_streaming /\ tr.streaming_message_id # None
         THEN <<Ev("TEXT_MESSAGE_END", tr.streaming_message_id, << >>)>>
         ELSE << >>)
        \o <<Ev("TEXT_MESSAGE_START", e.id, << >>),
              Ev("TEXT_MESSAGE_CONTENT", e.id, CombinedText(e.parts)),
              Ev("TEXT_MESSAGE_END", e.id, << >>)>>)

FinalText(tr, e, run_id) ==
    IF tr.is_streaming /\ tr.streaming_message_id # None
    THEN Res([SnapshotStream(tr, run_id) EXCEPT !.current_stream_text = << >>,
                                                 !.streaming_message_id = None,
                                                 !.is_streaming = FALSE],
             <<Ev("TEXT_MESSAGE_END", tr.streaming_message_id, << >>)>>)
    ELSE LET is_duplicate == /\ tr.last_streamed_run_id = run_id
                             /\ tr.last_streamed_text # None
                             /\ CombinedText(e.parts) = tr.last_streamed_text
         IN Res([tr EXCEPT !.current_stream_text = << >>,
                           !.last_streamed_text = None,
                           !.last_streamed_run_id = None],
                IF is_duplicate THEN << >>
                ELSE <<Ev("TEXT_MESSAGE_START", e.id, << >>),
                       Ev("TEXT_MESSAGE_CONTENT", e.id, CombinedText(e.parts)),
                       Ev("TEXT_MESSAGE_END", e.id, << >>)>>)

\* _translate_text_content, the streaming branch (not is_final_response)
StreamText(tr, e, run_id) ==
    LET combined == CombinedText(e.parts)
        should_send_end == \/ (e.turn_complete /\ ~e.partial)
                           \/ (e.final /\ ~e.partial)
                           \/ (e.finish_reason /\ tr.is_streaming)
        mid == IF tr.is_streaming THEN tr.streaming_message_id
               ELSE <<"m", tr.uuid + 1>>
        t1 == IF tr.is_streaming THEN tr
              ELSE [tr EXCEPT !.streaming_message_id = mid,
                              !.is_streaming = TRUE,
                              !.current_stream_text = << >>,
                              !.uuid = tr.uuid + 1]
        o1 == IF tr.is_streaming THEN << >>
              ELSE <<Ev("TEXT_MESSAGE_START", mid, << >>)>>
        t2 == IF combined # << >>
              THEN [t1 EXCEPT !.current_stream_text = t1.current_stream_text \o combined]
              ELSE t1
        o2 == IF combined # << >>
              THEN <<Ev("TEXT_MESSAGE_CONTENT", mid, combined)>>
              ELSE << >>
    IN IF should_send_end
       THEN Res([SnapshotStream(t2, run_id) EXCEPT !.current_stream_text = << >>,
                                                   !.streaming_message_id = None,
                                                   !.is_streaming = FALSE],
                o1 \o o2 \o <<Ev("TEXT_MESSAGE_END", mid, << >>)>>)
       ELSE Res(t2, o1 \o o2)

\* EventTranslator._translate_text_content
TranslateTextContent(tr, e, run_id) ==
    IF ~HasTextParts(e.parts) /\ ~e.final THEN Res(tr, << >>)
    ELSE IF e.final THEN FinalText(tr, e, run_id)
    ELSE StreamText(tr, e, run_id)

\* The events of one function call: START, ARGS when the call has
\* arguments, END (json.dumps(args) is abstracted to the token "args")
CallEventsNoEnd(fc) ==
    <<Ev("TOOL_CALL_START", fc.id, "name")>>
    \o (IF fc.args THEN <<Ev("TOOL_CALL_ARGS", fc.id, "args")>> ELSE << >>)

CallEvents(fc) ==
    <<Ev("TOOL_CALL_START", fc.id, "name")>>
    \o (IF fc.args THEN <<Ev("TOOL_CALL_ARGS", fc.id, "args")>> ELSE << >>)
    \o <<Ev("TOOL_CALL_END", fc.id, << >>)>>

\* EventTranslator._translate_function_calls
RECURSIVE TranslateFunctionCalls(_)
TranslateFunctionCalls(fcs) ==
    IF fcs = << >> THEN << >>
    ELSE CallEvents(Head(fcs)) \o TranslateFunctionCalls(Tail(fcs))

\* EventTranslator._translate_function_response
RECURSIVE TranslateFunctionResponse(_, _)
TranslateFunctionResponse(tr, frs) ==
    IF frs = << >> THEN << >>
    ELSE (IF ~InSeq(Head(frs).id, tr.long_running_tool_ids)
          THEN <<Ev("TOOL_CALL_RESULT", Head(frs).id, "content")>>
          ELSE << >>)
         \o TranslateFunctionResponse(tr, Tail(frs))

RECURSIVE FilterNonLro(_, _)
FilterNonLro(fcs, lro) ==
    IF fcs = << >> THEN << >>
    ELSE (IF Head(fcs).id \notin lro THEN <<Head(fcs)>> ELSE << >>)
         \o FilterNonLro(Tail(fcs), lro)

\* translate(): the function-call step
TranslateCallsStepNoClose(tr, e) ==
    LET non_lro_calls == FilterNonLro(GetFunctionCalls(e), e.lro_ids)
    IN Res(tr, TranslateFunctionCalls(non_lro_calls))

TranslateCallsStep(tr, e) ==
    LET non_lro_calls == FilterNonLro(GetFunctionCalls(e), e.lro_ids)
    IN IF non_lro_calls # << >>
       THEN LET c == ForceClose(tr)
            IN Res(c.tr, c.out \o TranslateFunctionCalls(non_lro_calls))
       ELSE Res(tr, << >>)

\* translate(): state delta, state snapshot and custom data
StateEvents(e) ==
    (IF e.state_delta THEN <<Ev("STATE_DELTA", None, "patches")>> ELSE << >>)
    \o (IF e.state_snapshot THEN <<Ev("STATE_SNAPSHOT", None, "snapshot")>> ELSE << >>)
    \o (IF e.custom_data THEN <<Ev("CUSTOM", "adk_metadata", "value")>> ELSE << >>)

\* EventTranslator.translate
Translate(tr, e, run_id) ==
    IF e.author = "user" THEN Res(tr, << >>)
    ELSE LET r1 == IF e.parts # << >> THEN TranslateTextContent(tr, e, run_id)
                   ELSE Res(tr, << >>)
             r2 == TranslateCallsStep(r1.tr, e)
             o3 == TranslateFunctionResponse(r2.tr, GetFunctionResponses(e))
         IN Res(r2.tr, r1.out \o r2.out \o o3 \o StateEvents(e))

\* EventTranslator.translate_lro_function_calls: only the first function
\* call whose id is in the event's long_running_tool_ids is taken
RECURSIVE FirstLro(_, _)
FirstLro(parts, lro) ==
    IF parts = << >> THEN << >>
    ELSE IF Head(parts).kind = "fc" /\ Head(parts).id \in lro THEN <<Head(parts)>>
    ELSE FirstLro(Tail(parts), lro)

TranslateLroFunctionCalls(tr, e) ==
    LET f == FirstLro(e.parts, e.lro_ids)
    IN IF f = << >> THEN Res(tr, << >>)
       ELSE Res([tr EXCEPT !.long_running_tool_ids = Append(@, f[1].id)],
                CallEvents(f[1]))

\* EventTranslator.reset
ResetTranslator(tr) ==
    [NewTranslator EXCEPT !.uuid = tr.uuid]

(***************************************************************************)
(* Session Manager (session_manager.py) over the injected session store.   *)
(* The store holds one session per (app_name, user_id, session_id); the    *)
(* manager's registry is indexed by the session key "app_name:session_id". *)
(* One app_name is modelled, so a key is determined by its session id.     *)
(***************************************************************************)
App == "app"
Users == {"u1", "u2"}
Sids == {"s1", "s2", "s3"}
\* A key with no value; a one-element tuple, so that it is comparable with
\* the list values a key can hold (no call id is "absent")
Absent == <<"absent">>

\* SessionManager._make_session_key
MakeSessionKey(app, sid) == <<app, sid>>
SessionKeys == {MakeSessionKey(App, sid) : sid \in Sids}
KeySid(key) == key[2]

\* session_timeout_seconds and max_sessions_per_user, in clock ticks
Timeout == 1
MaxPerUser == 1

\* Session state maps: a key is Absent or bound to a value
StateKeys == {"pending_tool_calls", "k"}
EmptyState == [key \in StateKeys |-> Absent]
IsEmptyState(st) == \A key \in StateKeys : st[key] = Absent

\* state.update(state_delta) of the store's append_event
ApplyDelta(st, delta) ==
    [key \in StateKeys |-> IF delta[key] # Absent THEN delta[key] ELSE st[key]]

\* session.state.get("pending_tool_calls", [])
PendingOf(st) ==
    IF st["pending_tool_calls"] = Absent THEN << >> ELSE st["pending_tool_calls"]

\* A slot of the store: a session, or no session
NoSession == [exists |-> FALSE, state |-> EmptyState, last_update_time |-> 0]
Session(st, t) == [exists |-> TRUE, state |-> st, last_update_time |-> t]

\* SessionManager.__init__: nothing tracked; the store is empty.
\* max_per_user = 0 stands for max_sessions_per_user = None (no quota)
NewSessionManager ==
    [store |-> [u \in Users |-> [sid \in Sids |-> NoSession]],
     session_keys |-> {},
     user_order |-> << >>,
     user_sessions |-> [u \in Users |-> {}],
     processed_message_ids |-> [key \in SessionKeys |-> {}],
     max_per_user |-> MaxPerUser,
     archived |-> {},
     op |-> None]

\* session_service.get_session
GetSession(sm, u, sid) == sm.store[u][sid]

RemoveFromSeq(seq, x) == SelectSeq(seq, LAMBDA y : y # x)

\* list.remove(x): the first occurrence of x is removed
RECURSIVE RemoveFirst(_, _)
RemoveFirst(seq, x) ==
    IF seq = << >> THEN << >>
    ELSE IF Head(seq) = x THEN Tail(seq)
    ELSE <<Head(seq)>> \o RemoveFirst(Tail(seq), x)

\* SessionManager._track_session: user_sessions is a dict, whose keys keep
\* their insertion order
TrackSession(sm, key, u) ==
    [sm EXCEPT !.session_keys = @ \cup {key},
               !.user_order = IF InSeq(u, @) THEN @ ELSE Append(@, u),
               !.user_sessions[u] = @ \cup {key}]

\* SessionManager._untrack_session
UntrackSession(sm, key, u) ==
    [sm EXCEPT !.session_keys = @ \ {key},
               !.processed_message_ids[key] = {},
               !.user_sessions[u] = @ \ {key},
               !.user_order = IF InSeq(u, @) /\ sm.user_sessions[u] \ {key} = {}
                              THEN RemoveFromSeq(@, u) ELSE @]

\* SessionManager._delete_session for the session (u, sid): archive to the
\* memory service, delete from the store (a failing delete is logged),
\* untrack
DeleteSession(sm, u, sid, deleteFails) ==
    LET archived == [sm EXCEPT !.archived = @ \cup {<<u, sid>>}]
        deleted == IF deleteFails THEN archived
                   ELSE [archived EXCEPT !.store[u][sid] = NoSession]
    IN UntrackSession(deleted, MakeSessionKey(App, sid), u)

\* SessionManager._remove_oldest_user_session: the sessions of the user
\* that exist in the store and have the smallest last_update_time
OldestOf(sm, u) ==
    {key \in sm.user_sessions[u] :
        /\ GetSession(sm, u, KeySid(key)).exists
        /\ \A k2 \in sm.user_sessions[u] :
              GetSession(sm, u, KeySid(k2)).exists =>
                 GetSession(sm, u, KeySid(key)).last_update_time
                    <= GetSession(sm, u, KeySid(k2)).last_update_time}

RemoveOldestUserSession(sm, u, victim, deleteFails) ==
    IF ~InSeq(u, sm.user_order) \/ victim = None THEN sm
    ELSE DeleteSession(sm, u, KeySid(victim), deleteFails)

\* The session keys _remove_oldest_user_session may pick (ties are broken
\* by the iteration order of a set)
Victims(sm, u) == IF OldestOf(sm, u) = {} THEN {None} ELSE OldestOf(sm, u)

\* SessionManager.get_or_create_session
GetOrCreateSession(sm, sid, u, initial_state, now, victim, deleteFails) ==
    LET key == MakeSessionKey(App, sid)
        s1 == IF /\ key \notin sm.session_keys
                 /\ sm.max_per_user # 0
                 /\ Cardinality(sm.user_sessions[u]) >= sm.max_per_user
              THEN RemoveOldestUserSession(sm, u, victim, deleteFails)
              ELSE sm
        s2 == IF ~GetSession(s1, u, sid).exists
              THEN [s1 EXCEPT !.store[u][sid] = Session(initial_state, now)]
              ELSE s1
    IN TrackSession(s2, key, u)

\* SessionManager.update_session_state: the new manager state and the
\* boolean returned
\* update_session_state without its two early returns
UpdateSessionStateAlways(sm, sid, u, state_updates, now, storeFails) ==
    IF storeFails THEN [sm |-> sm, ok |-> FALSE, appended |-> << >>]
    ELSE [sm |-> [sm EXCEPT !.store[u][sid] =
                     Session(ApplyDelta(@.state, state_updates), now)],
          ok |-> TRUE, appended |-> <<state_updates>>]

\* appended: the state deltas of the events handed to append_event
UpdateSessionState(sm, sid, u, state_updates, now, storeFails) ==
    IF storeFails THEN [sm |-> sm, ok |-> FALSE, appended |-> << >>]
    ELSE IF ~GetSession(sm, u, sid).exists
    THEN [sm |-> sm, ok |-> FALSE, appended |-> << >>]
    ELSE IF IsEmptyState(state_updates)
    THEN [sm |-> sm, ok |-> FALSE, appended |-> << >>]
    ELSE [sm |-> [sm EXCEPT !.store[u][sid] =
                     Session(ApplyDelta(@.state, state_updates), now)],
          ok |-> TRUE, appended |-> <<state_updates>>]

\* SessionManager.get_processed_message_ids
GetProcessedMessageIds(sm, app, sid) ==
    sm.processed_message_ids[MakeSessionKey(app, sid)]

\* SessionManager.mark_messages_processed
MarkMessagesProcessed(sm, app, sid, ids) ==
    [sm EXCEPT !.processed_message_ids[MakeSessionKey(app, sid)] = @ \cup ids]

\* _cleanup_expired_sessions: the user the loop finds for a session key,
\* the first user of the dict whose key set holds it
RECURSIVE FirstUserWith(_, _, _)
FirstUserWith(sm, order, key) ==
    IF order = << >> THEN None
    ELSE IF key \in sm.user_sessions[Head(order)] THEN Head(order)
    ELSE FirstUserWith(sm, Tail(order), key)

\* _cleanup_expired_sessions, the body of the loop for one session key
CleanupKeyNoHitl(sm, key, now, getFails, deleteFails) ==
    LET u == FirstUserWith(sm, sm.user_order, key)
        sid == KeySid(key)
    IN IF u = None \/ key \in getFails THEN sm
       ELSE IF GetSession(sm, u, sid).exists
       THEN IF now - GetSession(sm, u, sid).last_update_time > Timeout
            THEN DeleteSession(sm, u, sid, key \in deleteFails)
            ELSE sm
       ELSE UntrackSession(sm, key, u)

CleanupKey(sm, key, now, getFails, deleteFails) ==
    LET u == FirstUserWith(sm, sm.user_order, key)
        sid == KeySid(key)
    IN IF u = None \/ key \in getFails THEN sm
       ELSE IF GetSession(sm, u, sid).exists
       THEN IF now - GetSession(sm, u, sid).last_update_time > Timeout
            THEN IF PendingOf(GetSession(sm, u, sid).state) # << >>
                 THEN sm
                 ELSE DeleteSession(sm, u, sid, key \in deleteFails)
            ELSE sm
       ELSE UntrackSession(sm, key, u)

\* SessionManager._cleanup_expired_sessions: one pass over a copy of the
\* tracked keys
RECURSIVE CleanupExpiredSessions(_, _, _, _, _)
CleanupExpiredSessions(sm, keys, now, getFails, deleteFails) ==
    IF keys = {} THEN sm
    ELSE LET key == CHOOSE k \in keys : TRUE
         IN CleanupExpiredSessions(CleanupKey(sm, key, now, getFails, deleteFails),
                                   keys \ {key}, now, getFails, deleteFails)

(***************************************************************************)
(* State.  The translator's own specification uses tr, out, last, prev;    *)
(* the other variables belong to the session manager and the orchestrator. *)
(***************************************************************************)
VARIABLES
    tr,      \* the EventTranslator under test
    out,     \* every UIP event it has yielded, in order
    last,    \* the last call made on it: operation, event, run id, yield
    prev,    \* the call before that
    sm,      \* the SessionManager singleton and the session store behind it
    now,     \* the clock, in ticks
    runs,    \* the run() invocations: position, input, events yielded
    execs,   \* every ExecutionState created, with its background task
    active,  \* ADKAgent._active_executions: thread_id -> execution (0: none)
    session_lookup_cache,  \* ADKAgent._session_lookup_cache
    max_concurrent,        \* ADKAgent._max_concurrent
    execution_lock         \* ADKAgent._execution_lock: holder, waiting runs

trVars == <<tr, out, last, prev>>
smVars == <<sm, now>>
orchVars == <<runs, execs, active, session_lookup_cache, max_concurrent, execution_lock>>
vars == <<tr, out, last, prev, sm, now, runs, execs, active,
          session_lookup_cache, max_concurrent, execution_lock>>

MaxOut == 7
MaxOutTr == 4

RunIds == {"r1", "r2"}
TA == <<"a">>
TB == <<"b">>

\* The runtime events fed to the translator: streaming chunks, chunks that
\* end the turn, final responses (empty, equal to and different from what
\* was streamed), backend and long-running function calls, function
\* responses, a state delta and a user-authored event.
Chunk(t) == Arp(<<TextPart(t)>>, TRUE, FALSE, FALSE, FALSE, {})
ChunkEnd(t) == Arp(<<TextPart(t)>>, FALSE, TRUE, FALSE, FALSE, {})
ChunkFinish(t) == Arp(<<TextPart(t)>>, TRUE, FALSE, FALSE, TRUE, {})
Final(parts) == Arp(parts, FALSE, TRUE, TRUE, FALSE, {})
Calls(parts, lro) == Arp(parts, FALSE, FALSE, lro # {}, FALSE, lro)

TextEvents ==
    {Chunk(TA), Chunk(TB), ChunkEnd(TA), ChunkFinish(TB),
     Final(<<TextPart(<< >>)>>), Final(<<TextPart(TA)>>),
     Final(<<TextPart(TA), TextPart(TB)>>)}

\* The events translated under the second run id
TextEventsR2 == {Chunk(TA), Final(<<TextPart(TA)>>)}

CallEventsIn ==
    {Calls(<<CallPart("c1", TRUE)>>, {}),
     Calls(<<CallPart("c1", TRUE)>>, {"c1"}),
     Calls(<<CallPart("c1", TRUE), CallPart("c2", FALSE)>>, {}),
     Calls(<<CallPart("c1", FALSE), CallPart("c2", TRUE)>>, {"c1", "c2"}),
     Calls(<<CallPart("c1", TRUE), CallPart("c2", FALSE)>>, {"c2"}),
     Calls(<<TextPart(TA), CallPart("c2", TRUE)>>, {})}

OtherEvents ==
    {Arp(<<RespPart("c1")>>, FALSE, FALSE, FALSE, FALSE, {}),
     Arp(<<RespPart("c2"), RespPart("c1")>>, FALSE, FALSE, FALSE, FALSE, {}),
     [Arp(<< >>, FALSE, FALSE, FALSE, FALSE, {}) EXCEPT !.state_delta = TRUE],
     [Chunk(TA) EXCEPT !.author = "user"]}

ArpEventsTr ==
    {Chunk(TA), Final(<<TextPart(<< >>)>>)} \cup CallEventsIn \cup OtherEvents

NoStep == [op |-> None, e |-> None, run_id |-> None, from |-> 0, tr |-> None]
Step(op, e, r) == [op |-> op, e |-> e, run_id |-> r, from |-> Len(out), tr |-> tr]

\* The events yielded by the last call, and by the one before it
LastOut == SubSeq(out, last.from + 1, Len(out))
PrevOut == SubSeq(out, prev.from + 1, last.from)

\* asyncio.Lock(): not held, nobody waiting
Unlocked == [holder |-> None, waiters |-> << >>]

\* No run() invocation has been made
OrchIdle ==
    /\ runs = << >>
    /\ execs = << >>
    /\ active = << >>
    /\ session_lookup_cache = {}
    /\ max_concurrent = 0
    /\ execution_lock = Unlocked

InitTr ==
    /\ tr = NewTranslator
    /\ out = << >>
    /\ last = NoStep
    /\ prev = NoStep
    /\ sm = NewSessionManager
    /\ now = 0
    /\ OrchIdle

Apply(op, e, r, res) ==
    /\ UNCHANGED <<smVars, orchVars>>
    /\ tr' = res.tr
    /\ out' = out \o res.out
    /\ prev' = last
    /\ last' = Step(op, e, r)

\* translator.translate(adk_event, thread_id, run_id), the event drawn
\* from E under run id r1 and from E2 under run id r2
Feed(E, E2, max) ==
    /\ Len(out) < max
    /\ \E r \in RunIds :
       \E e0 \in (IF r = "r1" THEN E ELSE E2) :
         LET e == [e0 EXCEPT !.id = <<"e", Len(out) + 1>>]
         IN Apply("translate", e, r, Translate(tr, e, r))

TrTranslate == Feed(ArpEventsTr, {Chunk(TA)}, MaxOutTr)

TxtTranslate == Feed(TextEvents, TextEventsR2, MaxOut)

\* translator.translate_lro_function_calls(adk_event)
TrTranslateLro ==
    /\ Len(out) < MaxOutTr
    /\ \E e0 \in CallEventsIn :
         LET e == [e0 EXCEPT !.id = <<"e", Len(out) + 1>>]
         IN Apply("lro", e, None, TranslateLroFunctionCalls(tr, e))

\* translator.force_close_streaming_message()
CallForceClose(max) ==
    /\ Len(out) < max
    /\ Apply("force_close", None, None, ForceClose(tr))

\* translator.reset()
CallReset(max) ==
    /\ Len(out) < max
    /\ Apply("reset", None, None, Res(ResetTranslator(tr), << >>))

TrForceClose == CallForceClose(MaxOutTr)
TrReset == CallReset(MaxOutTr)
TxtForceClose == CallForceClose(MaxOut)
TxtReset == CallReset(MaxOut)

NextTr == TrTranslate \/ TrTranslateLro \/ TrForceClose \/ TrReset

SpecTr == InitTr /\ [][NextTr]_vars

\* The translator fed text events only
NextTxt == TxtTranslate \/ TxtForceClose \/ TxtReset

SpecTxt == InitTr /\ [][NextTxt]_vars

(***************************************************************************)
(* The Session Manager's own specification: its public operations and the  *)
(* cleanup pass, called in any order while the clock advances.             *)
(***************************************************************************)
MaxNow == 2

Pending(calls) == [EmptyState EXCEPT !["pending_tool_calls"] = calls]
SmStates == {Pending(<< >>), Pending(<<"c1">>)}
SmDeltas == {EmptyState, Pending(<< >>), Pending(<<"c1">>)}
MsgIds == {"x1"}

\* The (user, session id) pairs the callers ask for: u1 has two threads,
\* and u2 a thread whose id is also one of u1's
Asked == {<<"u1", "s1">>, <<"u1", "s2">>, <<"u2", "s1">>}

InitSm ==
    /\ tr = NewTranslator
    /\ out = << >>
    /\ last = NoStep
    /\ prev = NoStep
    /\ sm = NewSessionManager
    /\ now = 0
    /\ OrchIdle

\* sm.op names the last operation and sm.archived the sessions it handed
\* to the memory service
SmBegin == [sm EXCEPT !.archived = {}]
Did(op, s) == [s EXCEPT !.op = op]

SmTick ==
    /\ now < MaxNow
    /\ now' = now + 1
    /\ sm' = Did("tick", SmBegin)
    /\ UNCHANGED <<trVars, orchVars>>

SmGetOrCreateIn(asked, states) ==
    \E a \in asked, st \in states, deleteFails \in BOOLEAN :
    LET u == a[1]
        sid == a[2]
    IN
    \E victim \in Victims(sm, u) :
        /\ sm' = Did("get_or_create",
                     GetOrCreateSession(SmBegin, sid, u, st, now, victim, deleteFails))
        /\ UNCHANGED <<now, trVars, orchVars>>

SmGetOrCreate == SmGetOrCreateIn(Asked, SmStates)

SmUpdateIn(asked, deltas) ==
    \E a \in asked, delta \in deltas, storeFails \in BOOLEAN :
    LET u == a[1]
        sid == a[2]
    IN
        /\ sm' = Did("update",
                     UpdateSessionState(SmBegin, sid, u, delta, now, storeFails).sm)
        /\ UNCHANGED <<now, trVars, orchVars>>

SmUpdate == SmUpdateIn(Asked, SmDeltas)

SmMark ==
    \E sid \in {a[2] : a \in Asked}, ids \in SUBSET MsgIds :
        /\ sm' = Did("mark", MarkMessagesProcessed(SmBegin, App, sid, ids))
        /\ UNCHANGED <<now, trVars, orchVars>>

SmCleanup ==
    \E getFails \in SUBSET SessionKeys, deleteFails \in SUBSET SessionKeys :
        /\ sm' = Did("cleanup",
                     CleanupExpiredSessions(SmBegin, sm.session_keys, now,
                                            getFails, deleteFails))
        /\ UNCHANGED <<now, trVars, orchVars>>

NextSm == SmTick \/ SmGetOrCreate \/ SmUpdate \/ SmMark \/ SmCleanup

SpecSm == InitSm /\ [][NextSm]_vars

(***************************************************************************)
(* The quota on its own: a manager constructed with max_sessions_per_user  *)
(* = 2 serves get_or_create_session for three threads of u1 and a thread   *)
(* of u2, and update_session_state, while time passes.                     *)
(***************************************************************************)
QuotaMax == 2
AskedQuota == {<<"u1", "s1">>, <<"u1", "s2">>, <<"u1", "s3">>, <<"u2", "s1">>}
QuotaStates == {Pending(<< >>)}

InitQuota ==
    /\ tr = NewTranslator
    /\ out = << >>
    /\ last = NoStep
    /\ prev = NoStep
    /\ sm = [NewSessionManager EXCEPT !.max_per_user = QuotaMax]
    /\ now = 0
    /\ OrchIdle

QuotaGetOrCreate == SmGetOrCreateIn(AskedQuota, QuotaStates)
QuotaUpdate == SmUpdateIn(AskedQuota, QuotaStates)

NextQuota == SmTick \/ QuotaGetOrCreate \/ QuotaUpdate

SpecQuota == InitQuota /\ [][NextQuota]_vars

(***************************************************************************)
(* update_session_state on its own, for two threads of one user.  The      *)
(* manager's field `call` keeps the arguments and the outcome of the last  *)
(* update_session_state call: the session before the call, the boolean     *)
(* returned and the deltas appended.                                       *)
(***************************************************************************)
AskedUpd == {<<"u1", "s1">>, <<"u1", "s2">>}

UpdGetOrCreate == SmGetOrCreateIn(AskedUpd, SmStates)

UpdUpdate ==
    \E a \in AskedUpd, delta \in SmDeltas, storeFails \in BOOLEAN :
    LET u == a[1]
        sid == a[2]
        res == UpdateSessionState(SmBegin, sid, u, delta, now, storeFails)
        call == [u |-> u, sid |-> sid, delta |-> delta, storeFails |-> storeFails,
                 before |-> GetSession(sm, u, sid), ok |-> res.ok,
                 appended |-> res.appended]
    IN
        /\ sm' = [call |-> call] @@ Did("update", res.sm)
        /\ UNCHANGED <<now, trVars, orchVars>>

NextUpd == SmTick \/ UpdGetOrCreate \/ UpdUpdate

SpecUpdate == InitSm /\ [][NextUpd]_vars

(***************************************************************************)
(* The Run Orchestrator (adk_agent.py): run() invocations, the             *)
(* sub-executions they start, and the background task of each execution.   *)
(* The thread id of a run is the session id of its session.                *)
(***************************************************************************)
Threads == {"s1"}

\* _get_user_id(input) with a static user_id
OrchUser == "u1"

\* execution_timeout_seconds, in clock ticks
ExecTimeout == 1

\* The values of max_concurrent_executions the agent is constructed with
MaxConcurrentChoices == {1, 2}

\* The number of events the runner yields to one background task
MaxFed == 1

\* Messages of a RunAgentInput: every message has an id and content
Msg(i, role, call) == [id |-> i, role |-> role, tool_call_id |-> call]
U1 == Msg("x1", "user", None)
T1 == Msg("x2", "tool", "c1")

RunInput(thread, msgs) ==
    [thread_id |-> thread, messages |-> msgs, state |-> EmptyState]
RunInputWith(thread, msgs, state) ==
    [thread_id |-> thread, messages |-> msgs, state |-> state]
NoInput == RunInput(None, << >>)
\* The inputs of the run() invocations: r1 sends the user message; r2
\* sends it too, alone or followed by the result of tool call c1
InputsFirst == {RunInput("s1", <<U1>>)}
InputsSecond == {RunInput("s1", <<U1>>), RunInput("s1", <<U1, T1>>)}
Inputs(r) == IF r = "r1" THEN InputsFirst ELSE InputsSecond

\* The events the runner yields: a streaming chunk, a final response and a
\* long-running function call
RunnerEvents ==
    {Chunk(TA), Final(<<TextPart(TA)>>), Calls(<<CallPart("c1", TRUE)>>, {"c1"})}

\* The queue's completion signal (None)
Sentinel == Ev(None, None, << >>)

RunStarted == Ev("RUN_STARTED", None, << >>)
RunFinished == Ev("RUN_FINISHED", None, << >>)
RunError(code) == Ev("RUN_ERROR", code, << >>)

\* ADKAgent._get_unseen_messages: walk the messages from the last one and
\* stop at the first whose id is in the ledger
GetUnseenMessagesFiltered(messages, processed_ids) ==
    SelectSeq(messages, LAMBDA m : ~(m.id # None /\ m.id \in processed_ids))

RECURSIVE GetUnseenMessages(_, _)
GetUnseenMessages(messages, processed_ids) ==
    IF messages = << >> THEN << >>
    ELSE LET message == messages[Len(messages)]
         IN IF message.id # None /\ message.id \in processed_ids THEN << >>
            ELSE Append(GetUnseenMessages(SubSeq(messages, 1, Len(messages) - 1),
                                          processed_ids),
                        message)

\* ADKAgent._collect_message_ids
CollectMessageIds(messages) ==
    {messages[i].id : i \in {j \in 1..Len(messages) : messages[j].id # None}}

\* run(): the length of the maximal run of tool (or of non-tool) messages
\* at the head of the unseen messages left
BatchLenOne(msgs, tool) == 1

RECURSIVE BatchLen(_, _)
BatchLen(msgs, tool) ==
    IF msgs = << >> \/ ((Head(msgs).role = "tool") # tool) THEN 0
    ELSE 1 + BatchLen(Tail(msgs), tool)

NonAssistant(msgs) == SelectSeq(msgs, LAMBDA m : m.role # "assistant")
AssistantMessageIdsNone(msgs) == {}

AssistantMessageIds(msgs) ==
    CollectMessageIds(SelectSeq(msgs, LAMBDA m : m.role = "assistant"))

\* ADKAgent._extract_tool_results: the tool messages of the candidates, or
\* of the whole input when no candidate is given
ExtractToolResults(input, candidate_messages) ==
    LET messages_to_check ==
            IF candidate_messages = None \/ candidate_messages = << >>
            THEN input.messages ELSE candidate_messages
    IN SelectSeq(messages_to_check, LAMBDA m : m.role = "tool")

\* ADKAgent._is_tool_result_submission
IsToolResultSubmission(unseen_messages) ==
    /\ unseen_messages # << >>
    /\ unseen_messages[Len(unseen_messages)].role = "tool"

\* The new_message handed to the runner: nothing, the latest user message,
\* or the function responses of the tool results
NoMessage == [role |-> None, ref |-> None]
UserContent(m) == [role |-> "user", ref |-> m.id]
FunctionContent(tool_results) ==
    [role |-> "function",
     ref |-> [i \in 1..Len(tool_results) |-> tool_results[i].tool_call_id]]

\* ADKAgent._convert_latest_message
RECURSIVE LatestUserMessage(_)
LatestUserMessage(target_messages) ==
    IF target_messages = << >> THEN NoMessage
    ELSE LET message == target_messages[Len(target_messages)]
         IN IF message.role = "user" THEN UserContent(message)
            ELSE LatestUserMessage(SubSeq(target_messages, 1,
                                          Len(target_messages) - 1))

ConvertLatestMessage(input, messages) ==
    LatestUserMessage(IF messages # None THEN messages ELSE input.messages)

\* ADKAgent._get_session_metadata: the user cached for the session id, or
\* the first user of the manager's registry that tracks its key
GetSessionMetadata(cache, m, sid) ==
    IF cache[sid] # None THEN cache[sid]
    ELSE FirstUserWith(m, m.user_order, MakeSessionKey(App, sid))

\* The cache after a lookup: a user found by the scan is cached
CacheLookup(cache, m, sid) ==
    [cache EXCEPT ![sid] = GetSessionMetadata(cache, m, sid)]

\* SessionManager.get_state_value(key="pending_tool_calls", default=[])
GetPendingCalls(m, u, sid) == PendingOf(GetSession(m, u, sid).state)

\* ADKAgent._has_pending_tool_calls
HasPendingToolCalls(cache, m, sid) ==
    LET u == GetSessionMetadata(cache, m, sid)
    IN u # None /\ Len(GetPendingCalls(m, u, sid)) > 0

\* ADKAgent._remove_pending_tool_call
RemovePendingToolCall(cache, m, sid, tool_call_id, t) ==
    LET u == GetSessionMetadata(cache, m, sid)
    IN IF u = None \/ ~InSeq(tool_call_id, GetPendingCalls(m, u, sid)) THEN m
       ELSE UpdateSessionState(
                m, sid, u,
                Pending(RemoveFirst(GetPendingCalls(m, u, sid), tool_call_id)),
                t, FALSE).sm

\* ADKAgent._add_pending_tool_call_with_context
AddPendingToolCall(m, sid, tool_call_id, u, t) ==
    IF InSeq(tool_call_id, GetPendingCalls(m, u, sid)) THEN m
    ELSE UpdateSessionState(
             m, sid, u, Pending(Append(GetPendingCalls(m, u, sid), tool_call_id)),
             t, FALSE).sm

\* _start_new_execution, lines 779-785: every tracked tool call is added
RECURSIVE AddPendingToolCalls(_, _, _, _, _)
AddPendingToolCalls(m, sid, tool_call_ids, u, t) ==
    IF tool_call_ids = << >> THEN m
    ELSE AddPendingToolCalls(AddPendingToolCall(m, sid, Head(tool_call_ids), u, t),
                             sid, Tail(tool_call_ids), u, t)

\* _handle_tool_result_submission, lines 549-561: a tool result submitted
\* while the session has pending tool calls is removed from them
RECURSIVE RemoveSubmitted(_, _, _, _, _)
RemoveSubmitted(cache, m, sid, tool_results, t) ==
    IF tool_results = << >> THEN m
    ELSE RemoveSubmitted(
             cache,
             IF HasPendingToolCalls(cache, m, sid)
             THEN RemovePendingToolCall(cache, m, sid, Head(tool_results).tool_call_id, t)
             ELSE m,
             sid, Tail(tool_results), t)

\* The submitted tool calls that RemoveSubmitted took off the pending list
RemovedCalls(cache, m, sid, tool_results, t) ==
    LET u == GetSessionMetadata(cache, m, sid)
        after == RemoveSubmitted(cache, m, sid, tool_results, t)
    IN IF u = None THEN {}
       ELSE {tool_results[i].tool_call_id : i \in
                {j \in 1..Len(tool_results) :
                    /\ InSeq(tool_results[j].tool_call_id, GetPendingCalls(m, u, sid))
                    /\ ~InSeq(tool_results[j].tool_call_id,
                              GetPendingCalls(after, u, sid))}}

\* ExecutionState (the translator and the count of runner events are locals
\* of the background task, gone when it returns): is_stale(timeout) is
\* now - start_time > timeout, cancel() cancels a background task that has
\* not finished, and TaskDone is execution.task.done() of the asyncio task
IsStale(x, t) == t - x.start_time > ExecTimeout
Cancel(x) ==
    IF x.task \in {"created", "running"}
    THEN [x EXCEPT !.task = "cancelled", !.translator = NewTranslator, !.fed = 0]
    ELSE x
\* execution.task.done() that is never true
TaskDoneNever(x) == FALSE

TaskDone(x) == x.task \in {"done", "cancelled"}

\* A run() invocation that has not been made
NewRun ==
    [pc |-> "idle", input |-> NoInput, unseen |-> << >>, todo |-> << >>,
     skip_tool_message_batch |-> FALSE,
     tool_results |-> None, message_batch |-> None,
     exec |-> 0, waits |-> 0,
     tool_call_ids |-> << >>, has_tool_calls |-> FALSE,
     removed |-> {},
     emitted |-> << >>, nsubs |-> 0]

\* _start_new_execution up to its first yield, RUN_STARTED.  emitted holds
\* the events the current sub-execution has yielded to the caller, removed
\* the tool calls _remove_pending_tool_call took off the pending list for
\* it ("Removed tool call ... from session ... pending list")
StartNewExecution(rec, tool_results, message_batch) ==
    [rec EXCEPT !.pc = "started",
                !.tool_results = tool_results,
                !.message_batch = message_batch,
                !.exec = 0, !.waits = 0,
                !.tool_call_ids = << >>, !.has_tool_calls = FALSE,
                !.emitted = <<RunStarted>>,
                !.nsubs = @ + 1]

\* The locals of a sub-execution are gone when it has ended
EndSub(rec, pc) ==
    [rec EXCEPT !.pc = pc, !.tool_results = None, !.message_batch = None,
                !.exec = 0, !.waits = 0, !.tool_call_ids = << >>,
                !.has_tool_calls = FALSE, !.removed = {}, !.emitted = << >>]

\* _start_new_execution, the finally block: the execution registered for
\* the thread is marked complete, and removed unless the session has
\* pending tool calls
\* The finally block deleting the entry whatever the session holds
EndExecutionAlways(xs, act, cache, m, thread) ==
    IF act[thread] = 0 THEN [execs |-> xs, active |-> act]
    ELSE [execs |-> [xs EXCEPT ![act[thread]].is_complete = TRUE],
          active |-> [act EXCEPT ![thread] = 0]]

EndExecution(xs, act, cache, m, thread) ==
    IF act[thread] = 0 THEN [execs |-> xs, active |-> act]
    ELSE [execs |-> [xs EXCEPT ![act[thread]].is_complete = TRUE],
          active |-> IF HasPendingToolCalls(cache, m, thread) THEN act
                     ELSE [act EXCEPT ![thread] = 0]]

\* _run_adk_in_background, lines 993-1001: the ids marked as processed
MessageIdsToMarkNone(active_tool_results, unseen_messages) == {}

MessageIdsToMark(active_tool_results, unseen_messages) ==
    IF active_tool_results # << >> THEN CollectMessageIds(active_tool_results)
    ELSE CollectMessageIds(unseen_messages)

\* _run_adk_in_background, the except branch: RUN_ERROR and the sentinel
TaskFailed(x) ==
    [x EXCEPT !.queue = @ \o <<RunError("BACKGROUND_EXECUTION_ERROR"), Sentinel>>,
              !.translator = NewTranslator, !.fed = 0,
              !.task = "done"]

\* _run_adk_in_background, lines 1057-1084: the event goes to translate()
HasLroFunctionCall(e) ==
    \E i \in 1..Len(e.parts) : e.parts[i].kind = "fc" /\ e.parts[i].id \in e.lro_ids

IsStreamingChunk(e) == e.partial \/ ~e.turn_complete \/ ~e.final

RegularPath(e) ==
    /\ ~HasLroFunctionCall(e)
    /\ IsStreamingChunk(e) \/ (e.parts # << >> /\ ~e.finish_reason)

\* _run_adk_in_background, lines 1098-1108: close the open text message,
\* then translate the long-running function call
LroPath(translator, e) ==
    LET c == ForceClose(translator)
        l == TranslateLroFunctionCalls(c.tr, e)
    IN Res(l.tr, c.out \o l.out)

HasToolCallEnd(events) ==
    \E i \in 1..Len(events) : events[i].type = "TOOL_CALL_END"

\* The session state carried by a STATE_SNAPSHOT
StateTuple(st) == <<st["pending_tool_calls"], st["k"]>>

\* _run_adk_in_background, lines 1116-1119: the final snapshot, emitted
\* when the session state is a non-empty map
FinalSnapshot(m, u, sid) ==
    IF GetSession(m, u, sid).exists /\ ~IsEmptyState(GetSession(m, u, sid).state)
    THEN <<Ev("STATE_SNAPSHOT", None, StateTuple(GetSession(m, u, sid).state))>>
    ELSE << >>

Init ==
    /\ tr = NewTranslator
    /\ out = << >>
    /\ last = NoStep
    /\ prev = NoStep
    /\ sm = [NewSessionManager EXCEPT !.max_per_user = 0]
    /\ now = 0
    /\ runs = [r \in RunIds |-> NewRun]
    /\ execs = << >>
    /\ active = [t \in Threads |-> 0]
    /\ session_lookup_cache = [t \in Threads |-> None]
    /\ max_concurrent \in MaxConcurrentChoices
    /\ execution_lock = Unlocked

\* run(), lines 359-365: the unseen suffix; with no unseen message the
\* request falls through to _start_new_execution(input)
RunStartIn(r, inputs) ==
    /\ runs[r].pc = "idle"
    /\ \E input \in inputs :
         LET unseen == GetUnseenMessages(
                           input.messages,
                           GetProcessedMessageIds(sm, App, input.thread_id))
             rec == [runs[r] EXCEPT !.input = input, !.unseen = unseen,
                                    !.todo = unseen]
         IN runs' = [runs EXCEPT ![r] =
                        IF unseen = << >> THEN StartNewExecution(rec, None, None)
                        ELSE [rec EXCEPT !.pc = "next"]]
    /\ UNCHANGED <<trVars, smVars, execs, active, session_lookup_cache, max_concurrent, execution_lock>>

RunStart(r) == RunStartIn(r, Inputs(r))

\* _handle_tool_result_submission: the candidates are the tool messages
\* given, or the unseen messages; with no tool result the only event is
\* RUN_ERROR (NO_TOOL_RESULTS), otherwise the results are taken off the
\* pending tool calls and _start_new_execution is entered
HandleToolResultSubmission(r, rec, tool_messages, include_message_batch) ==
    LET thread == rec.input.thread_id
        candidate_messages ==
            IF tool_messages # None THEN tool_messages
            ELSE GetUnseenMessages(rec.input.messages,
                                   GetProcessedMessageIds(sm, App, thread))
        tool_results == ExtractToolResults(rec.input, candidate_messages)
    IN IF tool_results = << >>
       THEN /\ runs' = [runs EXCEPT ![r] =
                          [rec EXCEPT !.pc = "rejected",
                                      !.emitted = <<RunError("NO_TOOL_RESULTS")>>]]
            /\ UNCHANGED <<sm, session_lookup_cache>>
       ELSE /\ sm' = RemoveSubmitted(session_lookup_cache, sm, thread, tool_results, now)
            /\ session_lookup_cache' = CacheLookup(session_lookup_cache, sm, thread)
            /\ runs' = [runs EXCEPT ![r] =
                          StartNewExecution(
                              [rec EXCEPT !.removed = RemovedCalls(
                                              session_lookup_cache, sm, thread,
                                              tool_results, now)],
                              tool_results,
                              IF include_message_batch THEN candidate_messages
                              ELSE None)]

\* run(), lines 372-421: the next batch of tool messages goes to
\* _handle_tool_result_submission, the next batch of other messages to
\* _start_new_execution; the generator ends when no message is left
NextBatch(r) ==
    LET rec == runs[r]
        thread == rec.input.thread_id
        tool == rec.todo # << >> /\ Head(rec.todo).role = "tool"
        n == BatchLen(rec.todo, tool)
        batch == SubSeq(rec.todo, 1, n)
        rest == SubSeq(rec.todo, n + 1, Len(rec.todo))
        message_batch == NonAssistant(batch)
        assistant_message_ids == AssistantMessageIds(batch)
    IN
    /\ rec.pc = "next"
    /\ UNCHANGED <<trVars, now, execs, active, max_concurrent, execution_lock>>
    /\ IF rec.todo = << >>
       THEN /\ runs' = [runs EXCEPT ![r].pc = "done"]
            /\ UNCHANGED <<sm, session_lookup_cache>>
       ELSE IF tool
       THEN HandleToolResultSubmission(
                r, [rec EXCEPT !.todo = rest, !.skip_tool_message_batch = FALSE],
                batch, ~rec.skip_tool_message_batch)
       ELSE /\ sm' = IF assistant_message_ids # {}
                     THEN MarkMessagesProcessed(sm, App, thread, assistant_message_ids)
                     ELSE sm
            /\ UNCHANGED session_lookup_cache
            /\ runs' = [runs EXCEPT ![r] =
                          IF message_batch = << >>
                          THEN [rec EXCEPT !.todo = rest,
                                           !.skip_tool_message_batch =
                                               @ \/ assistant_message_ids # {}]
                          ELSE StartNewExecution(
                                   [rec EXCEPT !.todo = rest,
                                               !.skip_tool_message_batch = FALSE],
                                   None, message_batch)]

\* _start_background_execution and lines 750-751: a new ExecutionState
\* with its background task, registered for the thread
NewExecution(rec, r, t) ==
    [thread_id |-> rec.input.thread_id, run |-> r, input |-> rec.input,
     tool_results |-> rec.tool_results,
     message_batch |-> rec.message_batch,
     queue |-> << >>, is_complete |-> FALSE, start_time |-> t,
     task |-> "created", translator |-> NewTranslator,
     new_message |-> NoMessage, marked |-> FALSE, fed |-> 0]

StartBackground(r, xs, act) ==
    LET rec == runs[r]
        x == NewExecution(rec, r, now)
    IN /\ execs' = Append(xs, x)
       /\ active' = [act EXCEPT ![rec.input.thread_id] = Len(xs) + 1]
       /\ runs' = [runs EXCEPT ![r].pc = "draining", ![r].exec = Len(xs) + 1,
                               ![r].waits = 0]

\* _cleanup_stale_executions that finds no execution stale
StaleThreadsNone(act, xs, t) == {}

\* _cleanup_stale_executions, lines 1155-1159: the threads whose registered
\* execution is stale
StaleThreads(act, xs, t) ==
    {th \in Threads : act[th] # 0 /\ IsStale(xs[act[th]], t)}

\* _start_new_execution, lines 721-751: the concurrency limit (after
\* _cleanup_stale_executions), the wait for the thread's existing
\* execution, the start of the background execution
CheckLimit(r) ==
    LET rec == runs[r]
        thread == rec.input.thread_id
        registered(act) == {t \in Threads : act[t] # 0}
        over == Cardinality(registered(active)) >= max_concurrent
        stale_threads == IF over THEN StaleThreads(active, execs, now) ELSE {}
        act1 == [t \in Threads |-> IF t \in stale_threads THEN 0 ELSE active[t]]
        xs1 == [e \in DOMAIN execs |->
                   IF e \in {active[t] : t \in stale_threads}
                   THEN Cancel(execs[e]) ELSE execs[e]]
        existing_execution == act1[thread]
    IN
    /\ rec.pc = "started"
    /\ UNCHANGED <<trVars, smVars, session_lookup_cache, max_concurrent, execution_lock>>
    /\ IF Cardinality(registered(act1)) >= max_concurrent
       THEN /\ runs' = [runs EXCEPT ![r].pc = "terminal",
                                    ![r].emitted = Append(@, RunError("EXECUTION_ERROR"))]
            /\ execs' = xs1
            /\ active' = act1
       ELSE IF existing_execution # 0 /\ ~xs1[existing_execution].is_complete
       THEN /\ runs' = [runs EXCEPT ![r].pc = "waiting",
                                    ![r].waits = existing_execution]
            /\ execs' = xs1
            /\ active' = act1
       ELSE StartBackground(r, xs1, act1)

\* _start_new_execution, lines 735-751: the existing execution's task has
\* finished.  Awaiting a cancelled task raises CancelledError, which no
\* except clause of the generator catches: the finally block runs and the
\* invocation ends
AwaitExisting(r) ==
    LET rec == runs[r]
        end == EndExecution(execs, active, session_lookup_cache, sm,
                            rec.input.thread_id)
    IN
    /\ rec.pc = "waiting"
    /\ TaskDone(execs[rec.waits])
    /\ UNCHANGED <<trVars, smVars, session_lookup_cache, max_concurrent, execution_lock>>
    /\ IF execs[rec.waits].task = "cancelled"
       THEN /\ runs' = [runs EXCEPT ![r] = EndSub(rec, "aborted")]
            /\ execs' = end.execs
            /\ active' = end.active
       ELSE StartBackground(r, execs, active)

\* _run_adk_in_background, lines 962-1046: ensure the session, sync its
\* state with input.state, mark the messages, build new_message.  A
\* failing session store takes the task to the except branch
TaskInitStep(e) ==
    LET x == execs[e]
        thread == x.thread_id
        m1 == GetOrCreateSession(sm, thread, OrchUser, x.input.state, now, None, FALSE)
        m2 == UpdateSessionState(m1, thread, OrchUser, x.input.state, now, FALSE).sm
        unseen_messages ==
            IF x.message_batch # None THEN x.message_batch
            ELSE GetUnseenMessages(x.input.messages,
                                   GetProcessedMessageIds(m2, App, thread))
        active_tool_results ==
            IF x.tool_results # None THEN x.tool_results
            ELSE IF IsToolResultSubmission(unseen_messages)
            THEN ExtractToolResults(x.input, unseen_messages)
            ELSE << >>
        message_ids == MessageIdsToMark(active_tool_results, unseen_messages)
        new_message ==
            IF active_tool_results # << >> THEN FunctionContent(active_tool_results)
            ELSE ConvertLatestMessage(
                     x.input,
                     IF x.message_batch # None THEN unseen_messages ELSE None)
    IN
    /\ x.task = "created"
    /\ UNCHANGED <<now, runs, active, max_concurrent, execution_lock>>
    /\ \E storeFails \in BOOLEAN :
         IF storeFails
         THEN /\ execs' = [execs EXCEPT ![e] = TaskFailed(x)]
              /\ UNCHANGED <<sm, session_lookup_cache>>
         ELSE /\ sm' = IF message_ids # {}
                       THEN MarkMessagesProcessed(m2, App, thread, message_ids)
                       ELSE m2
              /\ session_lookup_cache' =
                     [session_lookup_cache EXCEPT ![thread] = OrchUser]
              /\ execs' = [execs EXCEPT ![e] =
                             [x EXCEPT !.task = "running",
                                       !.new_message = new_message,
                                       !.marked = TRUE]]

TaskInit(e) == TaskInitStep(e) /\ UNCHANGED trVars

\* _run_adk_in_background, lines 1050-1111: one event of the runner is
\* translated onto the queue; the task returns, without a sentinel, once
\* a long-running tool call has been emitted
\* The loop body without the return after a long-running call
AfterEventNoStop(x, e0) ==
    LET adk_event == [e0 EXCEPT !.id = <<"e", x.fed + 1>>]
        res == IF RegularPath(adk_event)
               THEN Translate(x.translator, adk_event, x.run)
               ELSE LroPath(x.translator, adk_event)
    IN [x EXCEPT !.queue = @ \o res.out,
                 !.translator = res.tr,
                 !.fed = @ + 1]

AfterEvent(x, e0) ==
    LET adk_event == [e0 EXCEPT !.id = <<"e", x.fed + 1>>]
        res == IF RegularPath(adk_event)
               THEN Translate(x.translator, adk_event, x.run)
               ELSE LroPath(x.translator, adk_event)
        is_long_running_tool ==
            ~RegularPath(adk_event) /\ HasToolCallEnd(res.out)
    IN IF is_long_running_tool
       THEN [x EXCEPT !.queue = @ \o res.out,
                      !.translator = NewTranslator,
                      !.fed = 0,
                      !.task = "done"]
       ELSE [x EXCEPT !.queue = @ \o res.out,
                      !.translator = res.tr,
                      !.fed = @ + 1]

TaskEventIn(e, events, max) ==
    LET x == execs[e]
    IN
    /\ x.task = "running"
    /\ x.fed < max
    /\ UNCHANGED <<trVars, smVars, runs, active, session_lookup_cache, max_concurrent, execution_lock>>
    /\ \E e0 \in events : execs' = [execs EXCEPT ![e] = AfterEvent(x, e0)]

TaskEvent(e) == TaskEventIn(e, RunnerEvents, MaxFed)

\* _run_adk_in_background, lines 1112-1122: the runner's stream is
\* exhausted: close the open text message, snapshot, sentinel
AfterEnd(x, m) ==
    LET c == ForceClose(x.translator)
    IN [x EXCEPT !.queue = @ \o c.out
                             \o FinalSnapshot(m, OrchUser, x.thread_id)
                             \o <<Sentinel>>,
                 !.translator = NewTranslator, !.fed = 0,
                 !.task = "done"]

TaskEnd(e) ==
    /\ execs[e].task = "running"
    /\ UNCHANGED <<trVars, smVars, runs, active, session_lookup_cache, max_concurrent, execution_lock>>
    /\ execs' = [execs EXCEPT ![e] = AfterEnd(execs[e], sm)]

\* _run_adk_in_background, lines 1125-1135: the runner raises
TaskRaise(e) ==
    /\ execs[e].task = "running"
    /\ UNCHANGED <<trVars, smVars, runs, active, session_lookup_cache, max_concurrent, execution_lock>>
    /\ execs' = [execs EXCEPT ![e] = TaskFailed(execs[e])]

\* _start_new_execution, lines 761-770: the tool calls ended and not yet
\* answered by a TOOL_CALL_RESULT
TrackToolCallKeep(tool_call_ids, event) ==
    IF event.type = "TOOL_CALL_END"
    THEN Append(tool_call_ids, event.id) ELSE tool_call_ids

TrackToolCall(tool_call_ids, event) ==
    LET ended == IF event.type = "TOOL_CALL_END"
                 THEN Append(tool_call_ids, event.id) ELSE tool_call_ids
    IN IF event.type = "TOOL_CALL_RESULT" /\ InSeq(event.id, ended)
       THEN RemoveFirst(ended, event.id) ELSE ended

\* _stream_events seen from _start_new_execution's loop: the next item of
\* the queue is yielded, or is the sentinel; with an empty queue the one
\* second wait times out, on a stale execution (EXECUTION_TIMEOUT) or on a
\* finished task
\* _stream_events that stops as soon as the task is done, whatever is left
\* on the queue
DrainUntilDone(r) ==
    LET rec == runs[r]
        x == execs[rec.exec]
    IN
    /\ rec.pc = "draining"
    /\ UNCHANGED <<trVars, smVars, active, session_lookup_cache, max_concurrent, execution_lock>>
    /\ IF TaskDone(x)
       THEN /\ execs' = [execs EXCEPT ![rec.exec].is_complete = TRUE]
            /\ runs' = [runs EXCEPT ![r].pc = "finishing"]
       ELSE /\ x.queue # << >>
            /\ execs' = [execs EXCEPT ![rec.exec].queue = Tail(@)]
            /\ runs' = [runs EXCEPT
                  ![r].emitted = Append(@, Head(x.queue)),
                  ![r].has_tool_calls = @ \/ Head(x.queue).type = "TOOL_CALL_END",
                  ![r].tool_call_ids = TrackToolCall(@, Head(x.queue))]

Drain(r) ==
    LET rec == runs[r]
        x == execs[rec.exec]
    IN
    /\ rec.pc = "draining"
    /\ UNCHANGED <<trVars, smVars, active, session_lookup_cache, max_concurrent, execution_lock>>
    /\ IF x.queue # << >>
       THEN IF Head(x.queue) = Sentinel
            THEN /\ execs' = [execs EXCEPT ![rec.exec].queue = Tail(@),
                                           ![rec.exec].is_complete = TRUE]
                 /\ runs' = [runs EXCEPT ![r].pc = "finishing"]
            ELSE /\ execs' = [execs EXCEPT ![rec.exec].queue = Tail(@)]
                 /\ runs' = [runs EXCEPT
                       ![r].emitted = Append(@, Head(x.queue)),
                       ![r].has_tool_calls = @ \/ Head(x.queue).type = "TOOL_CALL_END",
                       ![r].tool_call_ids = TrackToolCall(@, Head(x.queue))]
       ELSE IF IsStale(x, now)
            THEN /\ runs' = [runs EXCEPT
                       ![r].pc = "finishing",
                       ![r].emitted = Append(@, RunError("EXECUTION_TIMEOUT"))]
                 /\ UNCHANGED execs
            ELSE /\ TaskDone(x)
                 /\ execs' = [execs EXCEPT ![rec.exec].is_complete = TRUE]
                 /\ runs' = [runs EXCEPT ![r].pc = "finishing"]

\* _start_new_execution, lines 779-794: the tool calls left unanswered
\* become pending tool calls of the session; RUN_FINISHED
Finish(r) ==
    LET rec == runs[r]
    IN
    /\ rec.pc = "finishing"
    /\ UNCHANGED <<trVars, now, execs, active, session_lookup_cache, max_concurrent, execution_lock>>
    /\ sm' = IF rec.has_tool_calls
             THEN AddPendingToolCalls(sm, rec.input.thread_id, rec.tool_call_ids,
                                      OrchUser, now)
             ELSE sm
    /\ runs' = [runs EXCEPT ![r].pc = "terminal",
                            ![r].emitted = Append(@, RunFinished)]

\* _start_new_execution, lines 803-816: the finally block, run when the
\* caller resumes the generator after the last event
Finally(r) ==
    LET rec == runs[r]
        end == EndExecution(execs, active, session_lookup_cache, sm,
                            rec.input.thread_id)
    IN
    /\ rec.pc = "terminal"
    /\ UNCHANGED <<trVars, smVars, max_concurrent, execution_lock>>
    /\ execs' = end.execs
    /\ active' = end.active
    /\ session_lookup_cache' =
           IF active[rec.input.thread_id] # 0
           THEN CacheLookup(session_lookup_cache, sm, rec.input.thread_id)
           ELSE session_lookup_cache
    /\ runs' = [runs EXCEPT ![r] = EndSub(rec, "next")]

Next ==
    \/ \E r \in RunIds : RunStart(r)
    \/ \E r \in RunIds : NextBatch(r)
    \/ \E r \in RunIds : CheckLimit(r)
    \/ \E r \in RunIds : AwaitExisting(r)
    \/ \E r \in RunIds : Drain(r)
    \/ \E r \in RunIds : Finish(r)
    \/ \E r \in RunIds : Finally(r)
    \/ \E e \in DOMAIN execs : TaskInit(e)
    \/ \E e \in DOMAIN execs : TaskEvent(e)
    \/ \E e \in DOMAIN execs : TaskEnd(e)
    \/ \E e \in DOMAIN execs : TaskRaise(e)

\* Two overlapping run() invocations on one thread, within one
\* execution_timeout
Spec == Init /\ [][Next]_vars

\* Time passes: more than execution_timeout
Tick ==
    /\ now + ExecTimeout + 1 <= MaxNow
    /\ now' = now + ExecTimeout + 1
    /\ UNCHANGED <<trVars, sm, orchVars>>

\* One run() invocation, r2, while time passes
InitT ==
    /\ tr = NewTranslator
    /\ out = << >>
    /\ last = NoStep
    /\ prev = NoStep
    /\ sm = [NewSessionManager EXCEPT !.max_per_user = 0]
    /\ now = 0
    /\ runs = [r \in RunIds |-> IF r = "r2" THEN NewRun
                                ELSE [NewRun EXCEPT !.pc = "done"]]
    /\ execs = << >>
    /\ active = [t \in Threads |-> 0]
    /\ session_lookup_cache = [t \in Threads |-> None]
    /\ max_concurrent \in MaxConcurrentChoices
    /\ execution_lock = Unlocked

\* With one invocation no sub-execution finds an unfinished execution of
\* its thread, so none waits
NextT ==
    \/ \E r \in RunIds : RunStart(r)
    \/ \E r \in RunIds : NextBatch(r)
    \/ \E r \in RunIds : CheckLimit(r)
    \/ \E r \in RunIds : Drain(r)
    \/ \E r \in RunIds : Finish(r)
    \/ \E r \in RunIds : Finally(r)
    \/ \E e \in DOMAIN execs : TaskInit(e)
    \/ \E e \in DOMAIN execs : TaskEvent(e)
    \/ \E e \in DOMAIN execs : TaskEnd(e)
    \/ \E e \in DOMAIN execs : TaskRaise(e)
    \/ Tick

SpecT == InitT /\ [][NextT]_vars

(***************************************************************************)
(* Requests one after the other: r1 sends the user message; r2, before or  *)
(* after it, sends a longer history (tool result, assistant message,       *)
(* second user message), with or without client state.  The runner yields  *)
(* up to MaxFedSeq events per execution: text chunks, a final response,    *)
(* a long-running call, a backend call and its response.                   *)
(***************************************************************************)
MaxFedSeq == 3

A1 == Msg("x3", "assistant", None)
U2 == Msg("x4", "user", None)

InputsSeqSecond ==
    {RunInput("s1", <<U1, T1>>),
     RunInputWith("s1", <<U1, T1>>, Pending(<<"c1">>)),
     RunInput("s1", <<U1, A1, T1>>),
     RunInput("s1", <<U1, T1, U2>>)}
InputsSeq(r) == IF r = "r1" THEN InputsFirst ELSE InputsSeqSecond

RunnerEventsSeq ==
    {Chunk(TA), Chunk(TB), Final(<<TextPart(TA)>>),
     Calls(<<CallPart("c1", TRUE)>>, {"c1"}),
     Calls(<<CallPart("c2", TRUE)>>, {}),
     Arp(<<RespPart("c2")>>, FALSE, FALSE, FALSE, FALSE, {})}

\* run() is invoked when no other invocation is in progress
RunStartSeq(r) ==
    /\ \A q \in RunIds \ {r} : runs[q].pc \in {"idle", "done"}
    /\ RunStartIn(r, InputsSeq(r))

TaskEventSeq(e) == TaskEventIn(e, RunnerEventsSeq, MaxFedSeq)

\* No sub-execution finds an unfinished execution of its thread, so none
\* waits
NextSeq ==
    \/ \E r \in RunIds : RunStartSeq(r)
    \/ \E r \in RunIds : NextBatch(r)
    \/ \E r \in RunIds : CheckLimit(r)
    \/ \E r \in RunIds : Drain(r)
    \/ \E r \in RunIds : Finish(r)
    \/ \E r \in RunIds : Finally(r)
    \/ \E e \in DOMAIN execs : TaskInit(e)
    \/ \E e \in DOMAIN execs : TaskEventSeq(e)
    \/ \E e \in DOMAIN execs : TaskEnd(e)
    \/ \E e \in DOMAIN execs : TaskRaise(e)

SpecSeq == Init /\ [][NextSeq]_vars

(***************************************************************************)
(* The background task and its queue, with the task's steps on record:     *)
(* one run() invocation, the clock, and a runner that yields up to         *)
(* MaxFedLro events per execution, among them events with a long-running   *)
(* call without arguments, with two long-running calls, with a long-       *)
(* running and a backend call, and the response to a call.  Here `out` is  *)
(* the log of the steps of the background tasks: for each step the         *)
(* execution, the runner event consumed (if any) and the items put on the  *)
(* queue.                                                                  *)
(***************************************************************************)
MaxFedLro == 2

RunnerEventsLro ==
    {Chunk(TA),
     Calls(<<CallPart("c1", FALSE)>>, {"c1"}),
     Calls(<<CallPart("c1", TRUE), CallPart("c2", TRUE)>>, {"c1", "c2"}),
     Calls(<<CallPart("c2", TRUE), CallPart("c1", TRUE)>>, {"c1"}),
     Arp(<<RespPart("c1")>>, FALSE, FALSE, FALSE, FALSE, {})}

TaskStep(e, op, fed) ==
    [exec |-> e, op |-> op, fed |-> fed,
     put |-> SubSeq(execs'[e].queue, Len(execs[e].queue) + 1, Len(execs'[e].queue))]

LroUnchanged ==
    UNCHANGED <<tr, last, prev, smVars, runs, active, session_lookup_cache,
                max_concurrent, execution_lock>>

LroTaskInit(e) ==
    /\ TaskInitStep(e)
    /\ UNCHANGED <<tr, last, prev>>
    /\ out' = IF execs'[e].task = "done"
              THEN Append(out, TaskStep(e, "raise", << >>))
              ELSE out

LroTaskEventIn(e, events, max) ==
    /\ execs[e].task = "running"
    /\ execs[e].fed < max
    /\ LroUnchanged
    /\ \E e0 \in events :
         /\ execs' = [execs EXCEPT ![e] = AfterEvent(execs[e], e0)]
         /\ out' = Append(out, TaskStep(e, "event", <<e0>>))

LroTaskEvent(e) == LroTaskEventIn(e, RunnerEventsLro, MaxFedLro)

LroTaskEnd(e) ==
    /\ execs[e].task = "running"
    /\ LroUnchanged
    /\ execs' = [execs EXCEPT ![e] = AfterEnd(execs[e], sm)]
    /\ out' = Append(out, TaskStep(e, "end", << >>))

LroTaskRaise(e) ==
    /\ execs[e].task = "running"
    /\ LroUnchanged
    /\ execs' = [execs EXCEPT ![e] = TaskFailed(execs[e])]
    /\ out' = Append(out, TaskStep(e, "raise", << >>))

NextLro ==
    \/ \E r \in RunIds : RunStart(r)
    \/ \E r \in RunIds : NextBatch(r)
    \/ \E r \in RunIds : CheckLimit(r)
    \/ \E r \in RunIds : Drain(r)
    \/ \E r \in RunIds : Finish(r)
    \/ \E r \in RunIds : Finally(r)
    \/ \E e \in DOMAIN execs : LroTaskInit(e)
    \/ \E e \in DOMAIN execs : LroTaskEvent(e)
    \/ \E e \in DOMAIN execs : LroTaskEnd(e)
    \/ \E e \in DOMAIN execs : LroTaskRaise(e)
    \/ Tick

SpecLro == InitT /\ [][NextLro]_vars

(***************************************************************************)
(* A long-running call and its answer: r1 sends the user message, r2 then  *)
(* sends the history with the result of tool call c1.  The runner yields   *)
(* up to MaxFedLro events per execution: the long-running call c1 or a     *)
(* function response for c1.  The steps of the tasks are on record.        *)
(***************************************************************************)
RunnerEventsResp ==
    {Calls(<<CallPart("c1", TRUE)>>, {"c1"}),
     Arp(<<RespPart("c1")>>, FALSE, FALSE, FALSE, FALSE, {})}

RespTaskEvent(e) == LroTaskEventIn(e, RunnerEventsResp, MaxFedLro)

NextResp ==
    \/ \E r \in RunIds : RunStartSeq(r)
    \/ \E r \in RunIds : NextBatch(r)
    \/ \E r \in RunIds : CheckLimit(r)
    \/ \E r \in RunIds : Drain(r)
    \/ \E r \in RunIds : Finish(r)
    \/ \E r \in RunIds : Finally(r)
    \/ \E e \in DOMAIN execs : LroTaskInit(e)
    \/ \E e \in DOMAIN execs : RespTaskEvent(e)
    \/ \E e \in DOMAIN execs : LroTaskEnd(e)
    \/ \E e \in DOMAIN execs : LroTaskRaise(e)

SpecResp == Init /\ [][NextResp]_vars

(***************************************************************************)
(* One sub-execution from the moment its background task has been         *)
(* created: a new turn of thread s1 with one user message.  The runner     *)
(* yields up to MaxFedLro events, a long-running call or a backend call.   *)
(***************************************************************************)
RunnerEventsDrain ==
    {Calls(<<CallPart("c1", TRUE)>>, {"c1"}), Calls(<<CallPart("c2", TRUE)>>, {})}

\* run() after NextBatch, CheckLimit and StartBackground
DrainingRun ==
    [StartNewExecution([NewRun EXCEPT !.input = RunInput("s1", <<U1>>),
                                      !.unseen = <<U1>>],
                       None, <<U1>>)
         EXCEPT !.pc = "draining", !.exec = 1]

InitDrain ==
    /\ tr = NewTranslator
    /\ out = << >>
    /\ last = NoStep
    /\ prev = NoStep
    /\ sm = [NewSessionManager EXCEPT !.max_per_user = 0]
    /\ now = 0
    /\ runs = [r \in RunIds |-> IF r = "r2" THEN DrainingRun
                                ELSE [NewRun EXCEPT !.pc = "done"]]
    /\ execs = <<NewExecution(DrainingRun, "r2", 0)>>
    /\ active = [t \in Threads |-> 1]
    /\ session_lookup_cache = [t \in Threads |-> None]
    /\ max_concurrent \in MaxConcurrentChoices
    /\ execution_lock = Unlocked

TaskEventDrain(e) == TaskEventIn(e, RunnerEventsDrain, MaxFedLro)

NextDrain ==
    \/ \E r \in RunIds : Drain(r)
    \/ \E r \in RunIds : Finish(r)
    \/ \E e \in DOMAIN execs : TaskInit(e)
    \/ \E e \in DOMAIN execs : TaskEventDrain(e)
    \/ \E e \in DOMAIN execs : TaskEnd(e)
    \/ \E e \in DOMAIN execs : TaskRaise(e)
    \/ Tick

SpecDrain == InitDrain /\ [][NextDrain]_vars

\* The caller keeps consuming run(): the loop of _stream_events, whose wait
\* on the queue returns after one second at the latest, and the code after
\* the loop are not suspended for ever.  Nothing is assumed of the runner
\* or of the clock.  Every step of Drain and of Finish changes the position
\* of the sub-execution or the number of events it has yielded
Progress(r) == <<runs[r].pc, Len(runs[r].emitted)>>

FairDrain ==
    /\ SpecDrain
    /\ \A r \in RunIds : WF_Progress(r)(Drain(r)) /\ WF_Progress(r)(Finish(r))

(***************************************************************************)
(* The tool-result submission path on its own: r2 is an invocation of      *)
(* _handle_tool_result_submission(input), with tool_messages left to its   *)
(* default, before or after a run() invocation r1 on the same thread.      *)
(***************************************************************************)
Submitter == "r2"

InputsSubmit == {RunInput("s1", <<U1>>), RunInput("s1", <<U1, T1>>)}

RunStartBefore(r) ==
    /\ r # Submitter
    /\ runs[Submitter].pc \in {"idle", "done"}
    /\ RunStartIn(r, InputsSubmit)

\* _handle_tool_result_submission(input): tool_messages = None,
\* include_message_batch = True
Submit(r) ==
    /\ r = Submitter
    /\ runs[r].pc = "idle"
    /\ \A q \in RunIds \ {r} : runs[q].pc \in {"idle", "done"}
    /\ UNCHANGED <<trVars, now, execs, active, max_concurrent, execution_lock>>
    /\ \E input \in InputsSubmit :
           HandleToolResultSubmission(r, [runs[r] EXCEPT !.input = input], None, TRUE)

\* _handle_tool_result_submission, line 545: the caller resumes the
\* generator after the RUN_ERROR and it returns
Rejected(r) ==
    /\ runs[r].pc = "rejected"
    /\ runs' = [runs EXCEPT ![r] = EndSub(runs[r], "next")]
    /\ UNCHANGED <<trVars, smVars, execs, active, session_lookup_cache, max_concurrent, execution_lock>>

NextSubmit ==
    \/ \E r \in RunIds : RunStartBefore(r)
    \/ \E r \in RunIds : Submit(r)
    \/ \E r \in RunIds : Rejected(r)
    \/ \E r \in RunIds : NextBatch(r)
    \/ \E r \in RunIds : CheckLimit(r)
    \/ \E r \in RunIds : Drain(r)
    \/ \E r \in RunIds : Finish(r)
    \/ \E r \in RunIds : Finally(r)
    \/ \E e \in DOMAIN execs : TaskInit(e)
    \/ \E e \in DOMAIN execs : TaskEvent(e)
    \/ \E e \in DOMAIN execs : TaskEnd(e)
    \/ \E e \in DOMAIN execs : TaskRaise(e)

SpecSubmit == Init /\ [][NextSubmit]_vars

(***************************************************************************)
(* The unseen suffix on its own: run() is entered with any list of up to   *)
(* MaxMessages messages, with and without ids, against any ledger.         *)
(***************************************************************************)
MaxMessages == 3

MessagesU == {U1, T1, Msg(None, "user", None)}

RECURSIVE SeqsUpTo(_, _)
SeqsUpTo(S, n) ==
    IF n = 0 THEN {<< >>}
    ELSE SeqsUpTo(S, n - 1)
         \cup {Append(q, x) : q \in {q0 \in SeqsUpTo(S, n - 1) : Len(q0) = n - 1},
                               x \in S}

InputsU == {RunInput("s1", msgs) : msgs \in SeqsUpTo(MessagesU, MaxMessages)}

InitU ==
    /\ tr = NewTranslator
    /\ out = << >>
    /\ last = NoStep
    /\ prev = NoStep
    /\ \E ids \in SUBSET {"x1", "x2"} :
         sm = IF ids = {} THEN [NewSessionManager EXCEPT !.max_per_user = 0]
              ELSE MarkMessagesProcessed(
                       [NewSessionManager EXCEPT !.max_per_user = 0],
                       App, "s1", ids)
    /\ now = 0
    /\ runs = [r \in RunIds |-> NewRun]
    /\ execs = << >>
    /\ active = [t \in Threads |-> 0]
    /\ session_lookup_cache = [t \in Threads |-> None]
    /\ max_concurrent \in MaxConcurrentChoices
    /\ execution_lock = Unlocked

UnseenOf(r) == RunStartIn(r, InputsU)

NextU == \E r \in RunIds : UnseenOf(r)

SpecU == InitU /\ [][NextU]_vars

(***************************************************************************)
(* utils/converters.py: the JSON-patch conversions.  A string is the       *)
(* sequence of its characters; a dict is the sequence of its [key, value]  *)
(* items in insertion order, with distinct keys; JSON null is None.        *)
(***************************************************************************)
\* dict[key] = value: the value of an existing key is replaced in place, a
\* new key goes to the end
DictSet(d, key, value) ==
    IF \E i \in DOMAIN d : d[i].key = key
    THEN [i \in DOMAIN d |-> IF d[i].key = key THEN [key |-> key, value |-> value]
                             ELSE d[i]]
    ELSE Append(d, [key |-> key, value |-> value])

\* dict == dict: the same items, in any order
DictEq(d1, d2) == {d1[i] : i \in DOMAIN d1} = {d2[i] : i \in DOMAIN d2}

\* path.lstrip("/")
RECURSIVE Lstrip(_)
Lstrip(path) ==
    IF path # << >> /\ Head(path) = "/" THEN Lstrip(Tail(path)) ELSE path

\* patch.get("value")
PatchValue(patch) == IF "value" \in DOMAIN patch THEN patch.value ELSE None

\* convert_state_to_json_patch
RECURSIVE ConvertStateToJsonPatch(_)
ConvertStateToJsonPatch(state_delta) ==
    IF state_delta = << >> THEN << >>
    ELSE LET item == Head(state_delta)
             path == <<"/">> \o item.key
         IN <<IF item.value = None
              THEN [op |-> "remove", path |-> path]
              ELSE [op |-> "replace", path |-> path, value |-> item.value]>>
            \o ConvertStateToJsonPatch(Tail(state_delta))

\* convert_json_patch_to_state, from the dict built so far
RECURSIVE PatchesInto(_, _)
PatchesInto(state_delta, patches) ==
    IF patches = << >> THEN state_delta
    ELSE LET patch == Head(patches)
             key == Lstrip(patch.path)
         IN PatchesInto(
                IF patch.op = "remove" THEN DictSet(state_delta, key, None)
                ELSE IF patch.op \in {"add", "replace"}
                THEN DictSet(state_delta, key, PatchValue(patch))
                ELSE state_delta,
                Tail(patches))

ConvertJsonPatchToState(patches) == PatchesInto(<< >>, patches)

(***************************************************************************)
(* The two conversions applied one after the other, to every list of up to *)
(* MaxPatches patches and to every state delta over PatchKeys.  `last`     *)
(* keeps the input, the intermediate value and the value converted back.   *)
(***************************************************************************)
MaxPatches == 2
PatchKeys == {<<"a">>, <<"b">>, <<"/", "a">>}
PatchPaths == {<<"/", "a">>, <<"/", "b">>}
PatchScalars == {"x", "y", None}
PatchSet ==
    {[op |-> op, path |-> path, value |-> v] :
         op \in {"add", "replace", "test"}, path \in PatchPaths, v \in PatchScalars}
    \cup {[op |-> "remove", path |-> path] : path \in PatchPaths}
PatchLists == SeqsUpTo(PatchSet, MaxPatches)
PatchItems == {[key |-> k, value |-> v] : k \in PatchKeys, v \in PatchScalars}
PatchDeltas ==
    {d \in SeqsUpTo(PatchItems, MaxPatches) :
         \A i, j \in DOMAIN d : i # j => d[i].key # d[j].key}

InitPatch ==
    /\ tr = NewTranslator
    /\ out = << >>
    /\ last = NoStep
    /\ prev = NoStep
    /\ sm = NewSessionManager
    /\ now = 0
    /\ OrchIdle

PatchesToStateAndBack ==
    /\ \E patches \in PatchLists :
         last' = [op |-> "patches", input |-> patches,
                  mid |-> ConvertJsonPatchToState(patches),
                  back |-> ConvertStateToJsonPatch(ConvertJsonPatchToState(patches))]
    /\ UNCHANGED <<tr, out, prev, smVars, orchVars>>

StateToPatchesAndBack ==
    /\ \E delta \in PatchDeltas :
         last' = [op |-> "delta", input |-> delta,
                  mid |-> ConvertStateToJsonPatch(delta),
                  back |-> ConvertJsonPatchToState(ConvertStateToJsonPatch(delta))]
    /\ UNCHANGED <<tr, out, prev, smVars, orchVars>>

NextPatch == PatchesToStateAndBack \/ StateToPatchesAndBack

SpecPatch == InitPatch /\ [][NextPatch]_vars

(***************************************************************************)
(* Reading an event sequence                                               *)
(***************************************************************************)
\* A text message is open just before position i of s: some START before i
\* has no END of its message id between it and i
TextOpenAt(s, i) ==
    \E j \in 1..(i - 1) :
        /\ s[j].type = "TEXT_MESSAGE_START"
        /\ \A k \in (j + 1)..(i - 1) :
              ~(s[k].type = "TEXT_MESSAGE_END" /\ s[k].id = s[j].id)

\* The concatenated deltas of the TEXT_MESSAGE_CONTENT events of message m
RECURSIVE StreamDeltas(_, _)
StreamDeltas(s, m) ==
    IF s = << >> THEN << >>
    ELSE (IF Head(s).type = "TEXT_MESSAGE_CONTENT" /\ Head(s).id = m
          THEN Head(s).delta ELSE << >>)
         \o StreamDeltas(Tail(s), m)

IsToolCallEvent(x) == x.type \in {"TOOL_CALL_START", "TOOL_CALL_ARGS", "TOOL_CALL_END"}
IsStart(x) == x.type = "TOOL_CALL_START"

(***************************************************************************)
(* Reading a session manager                                               *)
(***************************************************************************)
\* The stored sessions (user, session id) whose pending_tool_calls list is
\* not empty
HasPending(m, u, sid) ==
    /\ GetSession(m, u, sid).exists
    /\ PendingOf(GetSession(m, u, sid).state) # << >>

\* The session (u, sid) is tracked: its key is in the registry and in its
\* user's key set
Tracked(m, u, sid) ==
    /\ MakeSessionKey(App, sid) \in m.session_keys
    /\ MakeSessionKey(App, sid) \in m.user_sessions[u]

(***************************************************************************)
(* Reading the orchestrator                                                *)
(***************************************************************************)
TerminalTypes == {"RUN_FINISHED", "RUN_ERROR"}

\* The sub-execution of r has yielded its last event
SubEnded(r) == runs[r].pc = "terminal"

\* The ledger of the thread of r
Ledger(r) == GetProcessedMessageIds(sm, App, runs[r].input.thread_id)

\* The executions started by the sub-executions of r
ExecsOf(r) == {e \in DOMAIN execs : execs[e].run = r}

\* The steps the background task of execution e has taken, the runner
\* events it has consumed and the items it has put on its queue (SpecLro)
StepsOf(e) == SelectSeq(out, LAMBDA st : st.exec = e)

RECURSIVE FedIn(_)
FedIn(steps) == IF steps = << >> THEN << >> ELSE Head(steps).fed \o FedIn(Tail(steps))

RECURSIVE PutIn(_)
PutIn(steps) == IF steps = << >> THEN << >> ELSE Head(steps).put \o PutIn(Tail(steps))

(***************************************************************************)
(* C1.  Every sub-execution emits RUN_STARTED as its first event and ends  *)
(* with exactly one terminal event, RUN_FINISHED or RUN_ERROR, which is    *)
(* its last event: never both, never neither.                              *)
(***************************************************************************)
C1_RunFraming ==
    \A r \in RunIds :
        SubEnded(r) =>
            LET s == runs[r].emitted
            IN /\ s[1].type = "RUN_STARTED"
               /\ s[Len(s)].type \in TerminalTypes
               /\ Cardinality({i \in 1..Len(s) : s[i].type \in TerminalTypes}) = 1

(***************************************************************************)
(* C2.  In the event sequence of one sub-execution every                   *)
(* TEXT_MESSAGE_START(m) has exactly one TEXT_MESSAGE_END(m), and it       *)
(* occurs later.                                                           *)
(***************************************************************************)
C2_TextMessagesClosed ==
    \A r \in RunIds :
        SubEnded(r) =>
            LET s == runs[r].emitted
                ends(m) == {j \in 1..Len(s) :
                               s[j].type = "TEXT_MESSAGE_END" /\ s[j].id = m}
            IN \A i \in 1..Len(s) :
                  s[i].type = "TEXT_MESSAGE_START" =>
                      /\ Cardinality(ends(s[i].id)) = 1
                      /\ \A j \in ends(s[i].id) : j > i

(***************************************************************************)
(* C5.  Executions are serialized per thread: at most one background       *)
(* execution of a thread is live (its task not finished) at any time, so   *)
(* a later sub-execution starts its task only after the earlier one's      *)
(* task has completed.                                                     *)
(***************************************************************************)
C5_OneLiveExecutionPerThread ==
    \A e1, e2 \in DOMAIN execs :
        (e1 < e2 /\ execs[e1].thread_id = execs[e2].thread_id)
            => (TaskDone(execs[e1]) \/ TaskDone(execs[e2]))

C6_AllMarked(r) ==
    runs[r].nsubs = Cardinality({e \in ExecsOf(r) : execs[e].marked})

C7_ReplayIdempotent ==
    \A r \in RunIds :
        (/\ SubEnded(r)
         /\ runs[r].input.messages # << >>
         /\ runs[r].unseen = << >>
         /\ ExecsOf(r) # {}
         /\ \A r0 \in RunIds \ {r} : runs[r0].pc = "done"
         /\ \A t \in Threads : active[t] \in ExecsOf(r) \cup {0})
            => /\ runs[r].emitted = <<RunStarted, RunFinished>>
               /\ \A e \in ExecsOf(r) : execs[e].new_message = NoMessage

(***************************************************************************)
(* C8.  A cleanup pass never deletes or untracks a session whose state has *)
(* a non-empty pending_tool_calls list, however old its last_update_time   *)
(* is: such a session is still in the store after the pass, and if it was  *)
(* tracked it is still tracked.                                            *)
(***************************************************************************)
C8_Preserved(u, sid) ==
    (HasPending(sm, u, sid) /\ sm'.op = "cleanup") =>
        /\ GetSession(sm', u, sid) = GetSession(sm, u, sid)
        /\ Tracked(sm, u, sid) => Tracked(sm', u, sid)

C8_CleanupKeepsPending ==
    [][\A u \in Users, sid \in Sids : C8_Preserved(u, sid)]_vars

(***************************************************************************)
(* C9.  No operation of the Session Manager destroys a session whose       *)
(* pending_tool_calls list is not empty: neither the expiry of the cleanup *)
(* pass nor the quota eviction of get_or_create_session removes it from    *)
(* the store.                                                              *)
(***************************************************************************)
C9_PendingNeverDestroyed ==
    [][\A u \in Users, sid \in Sids :
          HasPending(sm, u, sid) => GetSession(sm', u, sid).exists]_vars


(***************************************************************************)
(* C3.  No TOOL_CALL_START, TOOL_CALL_ARGS, TOOL_CALL_END or               *)
(* TOOL_CALL_RESULT event yielded by translate() lies between a            *)
(* TEXT_MESSAGE_START and its TEXT_MESSAGE_END, whatever events are fed.   *)
(***************************************************************************)
C3_NoToolEventInsideText ==
    last.op = "translate" =>
        \A i \in (last.from + 1)..Len(out) :
            out[i].type \in ToolTypes => ~TextOpenAt(out, i)

(***************************************************************************)
(* C4.  Every tool call is emitted as TOOL_CALL_START, then TOOL_CALL_ARGS *)
(* exactly when the call has arguments, then TOOL_CALL_END, contiguously   *)
(* and with one id; the calls of one runtime event come out one after the  *)
(* other in the order of the event's calls.                                *)
(***************************************************************************)
C4_Grouped(s) ==
    \A i \in 1..Len(s) :
        /\ s[i].type = "TOOL_CALL_START" =>
              /\ i < Len(s)
              /\ s[i + 1].id = s[i].id
              /\ \/ s[i + 1].type = "TOOL_CALL_END"
                 \/ /\ s[i + 1].type = "TOOL_CALL_ARGS"
                    /\ i + 1 < Len(s)
                    /\ s[i + 2] = Ev("TOOL_CALL_END", s[i].id, << >>)
        /\ s[i].type = "TOOL_CALL_ARGS" =>
              i > 1 /\ s[i - 1].type = "TOOL_CALL_START" /\ s[i - 1].id = s[i].id
        /\ s[i].type = "TOOL_CALL_END" =>
              /\ i > 1
              /\ s[i - 1].id = s[i].id
              /\ s[i - 1].type \in {"TOOL_CALL_START", "TOOL_CALL_ARGS"}

C4_InCallOrder ==
    last.op = "translate" /\ last.e.author # "user" =>
        LET calls == FilterNonLro(GetFunctionCalls(last.e), last.e.lro_ids)
            tool == SelectSeq(LastOut, IsToolCallEvent)
            starts == SelectSeq(LastOut, IsStart)
        IN /\ Len(starts) = Len(calls)
           /\ \A k \in 1..Len(calls) : starts[k].id = calls[k].id
           /\ \A i \in 1..Len(tool) :
                 tool[i].type = "TOOL_CALL_START" =>
                    \E k \in 1..Len(calls) :
                        /\ calls[k].id = tool[i].id
                        /\ calls[k].args <=> tool[i + 1].type = "TOOL_CALL_ARGS"

C4_ToolCallTriplets == C4_Grouped(out) /\ C4_InCallOrder

\* One event with two backend calls has been translated: five events
C4_Witness ==
    /\ last.op = "translate"
    /\ Len(GetFunctionCalls(last.e)) = 2
    /\ last.e.lro_ids = {}
    /\ Len(LastOut) = 5
    /\ LastOut[1].id = "c1" /\ LastOut[5] = Ev("TOOL_CALL_END", "c2", << >>)

(***************************************************************************)
(* C10.  When a final response closes an open stream whose deltas add up   *)
(* to T, the final response translated right after it under the same run   *)
(* id yields nothing if its text is T, and its own START, CONTENT, END     *)
(* under its event id if its text differs from T.                          *)
(***************************************************************************)
\* The call before the last was a final response that closed stream m
C10_PrevClosed(m) ==
    /\ prev.op = "translate" /\ prev.e.final /\ prev.e.author # "user"
    /\ PrevOut = <<Ev("TEXT_MESSAGE_END", m, << >>)>>
    /\ TextOpenAt(out, prev.from + 1)
    /\ last.op = "translate" /\ last.e.final /\ last.e.author # "user"
    /\ last.run_id = prev.run_id

C10_Streamed(m) == StreamDeltas(SubSeq(out, 1, prev.from), m)

C10_FinalDuplicateSuppressed ==
    \A i \in 1..Len(out) :
        C10_PrevClosed(out[i].id) =>
            LET T == C10_Streamed(out[i].id)
                text == CombinedText(last.e.parts)
            IN IF text = T THEN LastOut = << >>
               ELSE LastOut = <<Ev("TEXT_MESSAGE_START", last.e.id, << >>),
                                Ev("TEXT_MESSAGE_CONTENT", last.e.id, text),
                                Ev("TEXT_MESSAGE_END", last.e.id, << >>)>>

\* Two chunks "a", "b" were streamed, a final response closed the stream
\* and a final response with text "ab" was then suppressed
C10_Witness ==
    \E i \in 1..Len(out) :
        /\ C10_PrevClosed(out[i].id)
        /\ C10_Streamed(out[i].id) = TA \o TB
        /\ CombinedText(last.e.parts) = TA \o TB
        /\ LastOut = << >>

(***************************************************************************)
(* C15.  When translate() is given an event with non-long-running          *)
(* function calls while a text stream M is open, it yields                 *)
(* TEXT_MESSAGE_END(M) before the first TOOL_CALL_START and leaves the     *)
(* streaming state cleared.                                                *)
(***************************************************************************)
C15_StreamOpenAtCalls ==
    /\ last.op = "translate"
    /\ last.e.author # "user"
    /\ last.tr.is_streaming
    /\ FilterNonLro(GetFunctionCalls(last.e), last.e.lro_ids) # << >>

C15_TextClosedBeforeToolCall ==
    C15_StreamOpenAtCalls =>
        LET m == last.tr.streaming_message_id
            s == LastOut
        IN /\ \E i \in 1..Len(s) :
                 /\ s[i] = Ev("TEXT_MESSAGE_END", m, << >>)
                 /\ \A j \in 1..i : s[j].type # "TOOL_CALL_START"
           /\ \E i \in 1..Len(s) : s[i].type = "TOOL_CALL_START"
           /\ ~tr.is_streaming
           /\ tr.streaming_message_id = None
           /\ tr.current_stream_text = << >>

\* A chunk opened stream M and an event with one backend call followed:
\* END(M), then the call's START, ARGS, END
C15_Witness ==
    /\ C15_StreamOpenAtCalls
    /\ Len(LastOut) = 4
    /\ LastOut[1] = Ev("TEXT_MESSAGE_END", last.tr.streaming_message_id, << >>)
    /\ LastOut[2].type = "TOOL_CALL_START"
    /\ out[last.from].type = "TEXT_MESSAGE_CONTENT"

(***************************************************************************)
(* C18.  _get_unseen_messages returns, in the original order, the longest  *)
(* suffix of input.messages in which no message has an id that is in the   *)
(* ledger; a message without an id never ends the suffix; the result is    *)
(* empty when the last message's id is in the ledger or there is no        *)
(* message.                                                                *)
(***************************************************************************)
C18_InLedger(r, msg) == msg.id # None /\ msg.id \in Ledger(r)

C18_LongestUnseenSuffix ==
    \A r \in RunIds :
        runs[r].pc # "idle" =>
            LET msgs == runs[r].input.messages
                n == Len(msgs)
                unseen == runs[r].unseen
            IN /\ Len(unseen) <= n
               /\ unseen = SubSeq(msgs, n - Len(unseen) + 1, n)
               /\ \A i \in 1..Len(unseen) : ~C18_InLedger(r, unseen[i])
               /\ Len(unseen) < n => C18_InLedger(r, msgs[n - Len(unseen)])
               /\ (n = 0 \/ C18_InLedger(r, msgs[n])) => unseen = << >>

\* x1 is in the ledger: of x1, a message without id, x2 the last two are
\* unseen
C18_Witness ==
    \E r \in RunIds :
        /\ runs[r].pc # "idle"
        /\ Ledger(r) = {"x1"}
        /\ runs[r].input.messages = <<U1, Msg(None, "user", None), T1>>
        /\ runs[r].unseen = <<Msg(None, "user", None), T1>>

(***************************************************************************)
(* C20.  The ledger of a session only grows during the session's           *)
(* lifetime: no operation of the Session Manager (mark_messages_processed, *)
(* get_or_create_session, state updates, the cleanup pass) removes an id   *)
(* from the ledger of a session that is stored and tracked for its user    *)
(* before and after the operation and is not deleted by it.                *)
(***************************************************************************)
C20_Alive(m, u, sid) ==
    /\ GetSession(m, u, sid).exists
    /\ MakeSessionKey(App, sid) \in m.user_sessions[u]

C20_Kept(u, sid) ==
    (/\ C20_Alive(sm, u, sid)
     /\ C20_Alive(sm', u, sid)
     /\ <<u, sid>> \notin sm'.archived)
        => GetProcessedMessageIds(sm, App, sid)
              \subseteq GetProcessedMessageIds(sm', App, sid)

C20_LedgerOnlyGrows ==
    [][\A u \in Users, sid \in Sids : C20_Kept(u, sid)]_vars

(***************************************************************************)
(* C11.  When a sub-execution ends, every tool call c whose TOOL_CALL_END  *)
(* it drained with no TOOL_CALL_RESULT(c) after it is added to the         *)
(* session's pending_tool_calls, a tool call whose TOOL_CALL_RESULT it     *)
(* drained is not added, and with such an unanswered call the thread's     *)
(* entry in active_executions is retained by the finally block.  (Tool     *)
(* call ids are unique: no id is ended twice in the sub-execution.)        *)
(***************************************************************************)
C11_Ended(s) == {s[i].id : i \in {j \in 1..Len(s) : s[j].type = "TOOL_CALL_END"}}

C11_Unanswered(s) ==
    {c \in C11_Ended(s) :
        \E i \in 1..Len(s) :
            /\ s[i].type = "TOOL_CALL_END" /\ s[i].id = c
            /\ \A j \in (i + 1)..Len(s) :
                  ~(s[j].type = "TOOL_CALL_RESULT" /\ s[j].id = c)}

C11_UniqueIds(s) ==
    \A i, j \in 1..Len(s) :
        (s[i].type = "TOOL_CALL_END" /\ s[j].type = "TOOL_CALL_END" /\ s[i].id = s[j].id)
            => i = j

C11_PendingSet(m, thread) ==
    {GetPendingCalls(m, OrchUser, thread)[i] :
        i \in 1..Len(GetPendingCalls(m, OrchUser, thread))}

C11_Step(r) ==
    LET s == runs[r].emitted
        thread == runs[r].input.thread_id
    IN /\ (runs[r].pc = "finishing" /\ runs'[r].pc = "terminal" /\ C11_UniqueIds(s))
            => C11_PendingSet(sm', thread)
                   = C11_PendingSet(sm, thread) \cup C11_Unanswered(s)
       /\ (runs[r].pc = "terminal" /\ runs'[r].pc = "next"
               /\ C11_UniqueIds(s) /\ C11_Unanswered(s) # {})
            => active'[thread] = active[thread] /\ active[thread] # 0

C12_Finished(s) ==
    /\ s # << >>
    /\ s[Len(s)] = RunFinished
    /\ \A i \in 1..Len(s) : s[i].type # "RUN_ERROR"

C12_Submitted(r) ==
    /\ SubEnded(r)
    /\ runs[r].tool_results # None
    /\ C12_Finished(runs[r].emitted)

C12_Settled(r, t) ==
    /\ ~InSeq(t.tool_call_id, GetPendingCalls(sm, OrchUser, runs[r].input.thread_id))
    /\ t.id \in Ledger(r)

C12_ResultClearsPendingCall ==
    \A r \in RunIds :
        C12_Submitted(r) =>
            \A i \in 1..Len(runs[r].tool_results) :
                LET t == runs[r].tool_results[i]
                IN (/\ t.tool_call_id \in runs[r].removed
                    /\ t.tool_call_id \notin C11_Ended(runs[r].emitted))
                       => C12_Settled(r, t)

\* The same with the requests restricted to those whose input.state does not
\* bind pending_tool_calls
C12_ResultClearsPendingCallUnlessSynced ==
    \A r \in RunIds :
        (C12_Submitted(r) /\ runs[r].input.state["pending_tool_calls"] = Absent) =>
            \A i \in 1..Len(runs[r].tool_results) :
                LET t == runs[r].tool_results[i]
                IN (/\ t.tool_call_id \in runs[r].removed
                    /\ t.tool_call_id \notin C11_Ended(runs[r].emitted))
                       => C12_Settled(r, t)

C12_RemovedAndSettled ==
    \E r \in RunIds :
        /\ C12_Submitted(r)
        /\ "c1" \in runs[r].removed
        /\ C12_Settled(r, T1)

(***************************************************************************)
(* C13: a plain text turn.  A sub-execution for one unseen user message,   *)
(* on a session with empty state, that has finished without error after    *)
(* streaming text chunks only, has emitted exactly RUN_STARTED,            *)
(* TEXT_MESSAGE_START(M), one TEXT_MESSAGE_CONTENT(M, chunk) per chunk,    *)
(* TEXT_MESSAGE_END(M), a STATE_SNAPSHOT of the (empty) session state and  *)
(* RUN_FINISHED.                                                           *)
(***************************************************************************)
C13_TurnTypes == TextTypes \cup {"RUN_STARTED", "RUN_FINISHED", "STATE_SNAPSHOT"}

C13_Contents(s) == SelectSeq(s, LAMBDA e : e.type = "TEXT_MESSAGE_CONTENT")

C13_PlainTextTurn(r) ==
    LET s == runs[r].emitted
    IN /\ SubEnded(r)
       /\ runs[r].tool_results = None
       /\ runs[r].message_batch # None
       /\ runs[r].message_batch = <<U1>>
       /\ runs[r].input.state = EmptyState
       /\ IsEmptyState(GetSession(sm, OrchUser, runs[r].input.thread_id).state)
       /\ \A i \in 1..Len(s) : s[i].type \in C13_TurnTypes
       /\ Len(C13_Contents(s)) >= 2
       /\ Len(SelectSeq(s, LAMBDA e : e.type = "TEXT_MESSAGE_START")) = 1
       /\ s[Len(s)] = RunFinished

\* The sequence without its terminal snapshot
C13_TextFramed(s, n) ==
    /\ n >= 4
    /\ s[1] = RunStarted
    /\ s[2].type = "TEXT_MESSAGE_START"
    /\ \A i \in 3..(n - 1) :
           s[i].type = "TEXT_MESSAGE_CONTENT" /\ s[i].id = s[2].id
    /\ s[n] = Ev("TEXT_MESSAGE_END", s[2].id, << >>)

C13_PlainTextSequence ==
    \A r \in RunIds :
        C13_PlainTextTurn(r) =>
            LET s == runs[r].emitted
                n == Len(s)
            IN /\ n >= 6
               /\ C13_TextFramed(s, n - 2)
               /\ s[n - 1].type = "STATE_SNAPSHOT"
               /\ s[n - 1].delta = StateTuple(EmptyState)
               /\ s[n] = RunFinished

\* What the code emits for the turn: the same sequence with no snapshot
C13_PlainTextSequenceNoSnapshot ==
    \A r \in RunIds :
        C13_PlainTextTurn(r) =>
            LET s == runs[r].emitted
                n == Len(s)
            IN /\ C13_TextFramed(s, n - 1)
               /\ s[n] = RunFinished

C13_TurnEmitted ==
    \E r \in RunIds :
        /\ C13_PlainTextTurn(r)
        /\ C13_Contents(runs[r].emitted) =
               <<Ev("TEXT_MESSAGE_CONTENT", runs[r].emitted[2].id, TA),
                 Ev("TEXT_MESSAGE_CONTENT", runs[r].emitted[2].id, TB)>>

(***************************************************************************)
(* C14: the terminal STATE_SNAPSHOT, the one the background task puts on   *)
(* the queue right before the completion signal, comes when no text        *)
(* message is open: every TEXT_MESSAGE_START of the sub-execution has its  *)
(* TEXT_MESSAGE_END before that snapshot.                                  *)
(***************************************************************************)
\* The events of the sub-execution: those yielded, then those still queued
C14_Stream(r) ==
    runs[r].emitted \o (IF runs[r].exec # 0 THEN execs[runs[r].exec].queue ELSE << >>)

C14_TerminalSnapshot(s, i) ==
    /\ s[i].type = "STATE_SNAPSHOT"
    /\ i < Len(s)
    /\ s[i + 1] = Sentinel

C14_ClosedBefore(s, i) ==
    \A j \in 1..(i - 1) :
        s[j].type = "TEXT_MESSAGE_START" =>
            \E k \in (j + 1)..(i - 1) :
                s[k].type = "TEXT_MESSAGE_END" /\ s[k].id = s[j].id

C14_SnapshotAfterTextClosed ==
    \A r \in RunIds :
        \A i \in 1..Len(C14_Stream(r)) :
            C14_TerminalSnapshot(C14_Stream(r), i) => C14_ClosedBefore(C14_Stream(r), i)

\* A stream that was open when the runner's events ended: its END is the
\* event right before the terminal snapshot, right after a chunk
C14_Witness ==
    \E r \in RunIds :
        \E i \in 4..Len(C14_Stream(r)) :
            /\ C14_TerminalSnapshot(C14_Stream(r), i)
            /\ C14_Stream(r)[i - 1].type = "TEXT_MESSAGE_END"
            /\ C14_Stream(r)[i - 2].type = "TEXT_MESSAGE_CONTENT"
            /\ C14_Stream(r)[i - 3].type = "TEXT_MESSAGE_START"

(***************************************************************************)
(* C16: run() cuts the unseen suffix into maximal contiguous runs of tool  *)
(* messages and of other messages and starts one sub-execution per run, in *)
(* message order: for a tool run with exactly its tool messages as         *)
(* tool_results, for another run with no tool_results and its              *)
(* non-assistant messages as message_batch; a sub-execution starts when    *)
(* the earlier ones of the invocation have no event left to yield.         *)
(***************************************************************************)
C16_IsTool(m) == m.role = "tool"

\* The unseen messages run() has consumed so far
C16_Consumed(r) ==
    SubSeq(runs[r].unseen, 1, Len(runs[r].unseen) - Len(runs[r].todo))

\* A maximal run of one kind starts at i
C16_RunStartsAt(s, i) == i = 1 \/ C16_IsTool(s[i - 1]) # C16_IsTool(s[i])

\* The maximal run of one kind that ends s
C16_LastRun(s) ==
    LET i == CHOOSE i \in 1..Len(s) :
                 /\ C16_RunStartsAt(s, i)
                 /\ \A j \in i..Len(s) : C16_IsTool(s[j]) = C16_IsTool(s[Len(s)])
    IN SubSeq(s, i, Len(s))

\* The run starting at i is a tool run, or holds a message that is neither
\* a tool nor an assistant message
C16_RunHasWork(s, i) ==
    \/ C16_IsTool(s[i])
    \/ \E j \in i..Len(s) :
           /\ s[j].role \notin {"tool", "assistant"}
           /\ \A k \in i..j : ~C16_IsTool(s[k])

C16_RunsWithWork(s) ==
    Cardinality({i \in 1..Len(s) : C16_RunStartsAt(s, i) /\ C16_RunHasWork(s, i)})

C16_Started(r) == runs[r].pc = "started" /\ runs[r].unseen # << >>

C17_NoAssistant(batch) ==
    batch # None => \A i \in 1..Len(batch) : batch[i].role # "assistant"

C17_AssistantOnly(s) ==
    /\ s # << >>
    /\ \A i \in 1..Len(s) : s[i].role = "assistant" /\ s[i].id # None

\* The run of one kind before the last one of s, empty when there is none
C17_RunBeforeLast(s) ==
    LET before == SubSeq(s, 1, Len(s) - Len(C16_LastRun(s)))
    IN IF before = << >> THEN << >> ELSE C16_LastRun(before)

C17_Count(s, type) == Len(SelectSeq(s, LAMBDA e : e.type = type))

C17_AssistantThenTool(r) ==
    /\ runs[r].pc # "idle"
    /\ runs[r].unseen # << >>
    /\ C16_IsTool(runs[r].unseen[Len(runs[r].unseen)])
    /\ C17_AssistantOnly(C17_RunBeforeLast(runs[r].unseen))
    /\ Len(runs[r].unseen) =
           Len(C16_LastRun(runs[r].unseen)) + Len(C17_RunBeforeLast(runs[r].unseen))

C17_AssistantMessagesSkipped ==
    \A r \in RunIds :
        LET rec == runs[r]
            consumed == C16_Consumed(r)
        IN /\ C17_NoAssistant(rec.message_batch)
           /\ \A e \in DOMAIN execs :
                  execs[e].run = r => C17_NoAssistant(execs[e].message_batch)
           /\ \A i \in 1..Len(consumed) :
                  (consumed[i].role = "assistant" /\ consumed[i].id # None)
                      => consumed[i].id \in Ledger(r)
           /\ (/\ C16_Started(r)
               /\ C16_IsTool(consumed[Len(consumed)])
               /\ C17_AssistantOnly(C17_RunBeforeLast(consumed)))
                  => /\ rec.message_batch = None
                     /\ rec.tool_results # None
                     /\ rec.tool_results = C16_LastRun(consumed)
                     /\ rec.nsubs = C16_RunsWithWork(consumed)
           /\ C17_AssistantThenTool(r)
                  => /\ rec.nsubs <= 1
                     /\ C17_Count(rec.emitted, "RUN_STARTED") <= 1
                     /\ (SubEnded(r) /\ C12_Finished(rec.emitted))
                            => /\ C17_Count(rec.emitted, "RUN_STARTED") = 1
                               /\ C17_Count(rec.emitted, "RUN_FINISHED") = 1

\* [assistant, tool] unseen: the one sub-execution, for the tool result,
\* has finished
C17_Witness ==
    \E r \in RunIds :
        /\ runs[r].unseen = <<A1, T1>>
        /\ SubEnded(r)
        /\ C12_Finished(runs[r].emitted)
        /\ runs[r].nsubs = 1
        /\ runs[r].tool_results # None
        /\ runs[r].tool_results = <<T1>>
        /\ runs[r].message_batch = None
        /\ A1.id \in Ledger(r)

(***************************************************************************)
(* C19: when _handle_tool_result_submission is invoked and no tool message *)
(* is among its candidate messages (the unseen messages), its only event   *)
(* is RUN_ERROR with code NO_TOOL_RESULTS, _start_new_execution is not     *)
(* entered, and pending_tool_calls and active_executions are left as they  *)
(* were.                                                                   *)
(***************************************************************************)
\* The invocation has just yielded its first event
C19_JustSubmitted(r) ==
    \/ runs[r].pc = "rejected"
    \/ /\ r = Submitter
       /\ runs[r].pc = "started"

\* The candidates of the invocation: no run is in progress, so the ledger
\* is the one the invocation read
C19_Candidates(r) == GetUnseenMessages(runs[r].input.messages, Ledger(r))

C19_NoToolAmong(msgs) == \A i \in 1..Len(msgs) : msgs[i].role # "tool"

C19_OnlyError(r) ==
    /\ runs[r].pc = "rejected"
    /\ runs[r].emitted = <<RunError("NO_TOOL_RESULTS")>>
    /\ runs[r].nsubs = 0
    /\ runs[r].exec = 0
    /\ runs[r].removed = {}
    /\ \A e \in DOMAIN execs : execs[e].run # r

C19_NoToolResultsState ==
    \A r \in RunIds :
        (C19_JustSubmitted(r) /\ C19_NoToolAmong(C19_Candidates(r)))
            => C19_OnlyError(r)

C19_Untouched(r) ==
    (runs[r].pc # "rejected" /\ runs'[r].pc = "rejected")
        => /\ sm' = sm
           /\ active' = active
           /\ execs' = execs

C19_NoToolResultsError ==
    /\ []C19_NoToolResultsState
    /\ [][\A r \in RunIds : C19_Untouched(r)]_vars

\* The same for invocations that have a candidate message
C19_NoToolResultsErrorWithCandidates ==
    /\ [](\A r \in RunIds :
             (/\ C19_JustSubmitted(r)
              /\ C19_Candidates(r) # << >>
              /\ C19_NoToolAmong(C19_Candidates(r)))
                 => C19_OnlyError(r))
    /\ [][\A r \in RunIds : C19_Untouched(r)]_vars

C19_Rejected ==
    \E r \in RunIds :
        /\ C19_OnlyError(r)
        /\ C19_Candidates(r) = <<U1>>

(***************************************************************************)
(* C21: with max_sessions_per_user = N, every user tracks at most N        *)
(* session keys after any sequence of get_or_create_session calls, and a   *)
(* session that get_or_create_session evicts is one with the smallest      *)
(* last_update_time among the sessions the user tracked.                   *)
(***************************************************************************)
C21_WithinQuota ==
    \A u \in Users : Cardinality(sm.user_sessions[u]) <= sm.max_per_user

C21_Time(m, u, key) == GetSession(m, u, KeySid(key)).last_update_time

C21_Evicted(u) == sm.user_sessions[u] \ sm'.user_sessions[u]

C21_OldestEvicted(u) ==
    sm'.op = "get_or_create" =>
        \A key \in C21_Evicted(u) :
            \A k2 \in sm.user_sessions[u] : C21_Time(sm, u, key) <= C21_Time(sm, u, k2)

C21_QuotaEvictsOldest ==
    /\ []C21_WithinQuota
    /\ [][\A u \in Users : C21_OldestEvicted(u)]_vars

\* The same for users whose session keys no other user tracks or has
\* tracked at the time of the call
C21_Unshared(m, u) ==
    \A u2 \in Users \ {u} : \A sid \in Sids :
        ~(GetSession(m, u, sid).exists /\ GetSession(m, u2, sid).exists)

C21_QuotaEvictsOldestUnshared ==
    /\ [](\A u \in Users :
             C21_Unshared(sm, u) => Cardinality(sm.user_sessions[u]) <= sm.max_per_user)
    /\ [][\A u \in Users : C21_OldestEvicted(u)]_vars

\* u1 at quota with s1 older than s2 asks for s3: s1 is evicted
C21_EvictedOldest ==
    /\ sm.op = "get_or_create"
    /\ sm.user_sessions["u1"] = {MakeSessionKey(App, "s2"), MakeSessionKey(App, "s3")}
    /\ <<"u1", "s1">> \in sm.archived
    /\ GetSession(sm, "u1", "s2").last_update_time > 0

(***************************************************************************)
(* C22: update_session_state returns false and leaves the session as it    *)
(* was when the session does not exist, when the delta is empty or when a  *)
(* store call fails; otherwise it appends exactly one event that carries   *)
(* the delta, and returns true.                                            *)
(***************************************************************************)
C22_After == GetSession(sm, sm.call.u, sm.call.sid)

C22_Refused ==
    \/ sm.call.storeFails
    \/ ~sm.call.before.exists
    \/ IsEmptyState(sm.call.delta)

C22_UpdateOutcome ==
    sm.op = "update" =>
        IF C22_Refused
        THEN /\ sm.call.ok = FALSE
             /\ sm.call.appended = << >>
             /\ C22_After = sm.call.before
        ELSE /\ sm.call.ok = TRUE
             /\ sm.call.appended = <<sm.call.delta>>
             /\ C22_After.exists
             /\ C22_After.state = ApplyDelta(sm.call.before.state, sm.call.delta)

\* an update of an existing session with a delta that changes its state
C22_Updated ==
    /\ sm.op = "update"
    /\ sm.call.ok
    /\ C22_After.state # sm.call.before.state

\* a refused update of an existing session: empty delta, or the store fails
C22_RefusedExisting ==
    /\ sm.op = "update"
    /\ sm.call.before.exists
    /\ ~sm.call.ok
    /\ ~sm.call.storeFails

(***************************************************************************)
(* C23: the JSON-patch conversion is reversible for "add" operations with  *)
(* scalar values: a list of add-patches converted to a state delta and     *)
(* back is the original list, and a state delta with scalar values         *)
(* converted to patches and back is the original delta.                    *)
(***************************************************************************)
C23_AddPatches(patches) ==
    \A i \in DOMAIN patches : patches[i].op = "add"

C23_Reversible ==
    /\ (last.op = "patches" /\ C23_AddPatches(last.input)) => last.back = last.input
    /\ last.op = "delta" => DictEq(last.back, last.input)

\* What the round trips keep: a delta whose keys do not begin with "/"
\* comes back as it was; add-patches on distinct keys with non-null values
\* come back with the same paths and values under the operation "replace"
C23_PlainKeys(delta) == \A i \in DOMAIN delta : Head(delta[i].key) # "/"

C23_DistinctNonNull(patches) ==
    /\ \A i, j \in DOMAIN patches : i # j => patches[i].path # patches[j].path
    /\ \A i \in DOMAIN patches : patches[i].value # None

C23_ReversibleUpToOp ==
    /\ (last.op = "delta" /\ C23_PlainKeys(last.input)) => DictEq(last.back, last.input)
    /\ (/\ last.op = "patches"
        /\ last.input # << >>
        /\ C23_AddPatches(last.input)
        /\ C23_DistinctNonNull(last.input))
       => last.back = [i \in DOMAIN last.input |->
                           [last.input[i] EXCEPT !.op = "replace"]]

\* one add-patch with a scalar value has made the round trip
C23_AddRoundTrip ==
    /\ last.op = "patches"
    /\ last.input = <<[op |-> "add", path |-> <<"/", "a">>, value |-> "x"]>>
    /\ last.mid = <<[key |-> <<"a">>, value |-> "x"]>>

(***************************************************************************)
(* C24: a long-running tool turn.  When the runner yields one event whose  *)
(* function call c1, with empty arguments, is in long_running_tool_ids,    *)
(* the run emits exactly RUN_STARTED, TOOL_CALL_START(c1),                 *)
(* TOOL_CALL_ARGS(c1, "{}"), TOOL_CALL_END(c1), RUN_FINISHED.              *)
(***************************************************************************)
C24_LroEvent == Calls(<<CallPart("c1", FALSE)>>, {"c1"})

\* The sub-execution of r has ended without error, and the runner of its
\* execution yielded the one event
C24_LroTurn(r) ==
    /\ SubEnded(r)
    /\ runs[r].exec # 0
    /\ FedIn(StepsOf(runs[r].exec)) = <<C24_LroEvent>>
    /\ \A i \in 1..Len(runs[r].emitted) : runs[r].emitted[i].type # "RUN_ERROR"

C24_LroTurnSequence ==
    \A r \in RunIds :
        C24_LroTurn(r) =>
            runs[r].emitted = <<RunStarted,
                                Ev("TOOL_CALL_START", "c1", "name"),
                                Ev("TOOL_CALL_ARGS", "c1", "args"),
                                Ev("TOOL_CALL_END", "c1", << >>),
                                RunFinished>>

\* What the code emits for the turn: no TOOL_CALL_ARGS for empty arguments
C24_LroTurnSequenceNoArgs ==
    \A r \in RunIds :
        C24_LroTurn(r) =>
            runs[r].emitted = <<RunStarted,
                                Ev("TOOL_CALL_START", "c1", "name"),
                                Ev("TOOL_CALL_END", "c1", << >>),
                                RunFinished>>

C24_TurnEmitted == \E r \in RunIds : C24_LroTurn(r)

(***************************************************************************)
(* C25: queue draining terminates.  Once the background task of a          *)
(* sub-execution has finished, with or without the completion signal, or   *)
(* the execution is older than execution_timeout, _stream_events           *)
(* eventually stops and the sub-execution emits its terminal event.        *)
(***************************************************************************)
C25_TaskOver(r) ==
    /\ runs[r].pc = "draining"
    /\ \/ execs[runs[r].exec].task \in {"done", "cancelled"}
       \/ now - execs[runs[r].exec].start_time > ExecTimeout

C25_Ended(r) ==
    /\ runs[r].pc = "terminal"
    /\ runs[r].emitted[Len(runs[r].emitted)].type \in TerminalTypes

C26_IsSentinel(item) == item.type = None

C26_SentinelLast(put) ==
    /\ put # << >>
    /\ C26_IsSentinel(put[Len(put)])
    /\ \A i \in 1..(Len(put) - 1) : ~C26_IsSentinel(put[i])

C26_SentinelTerminated ==
    \A e \in DOMAIN execs :
        execs[e].task = "done" => C26_SentinelLast(PutIn(StepsOf(e)))

\* The last step of the task of e was the stop on a long-running call
C26_StoppedOnLro(e) ==
    LET steps == StepsOf(e)
    IN /\ steps # << >>
       /\ steps[Len(steps)].op = "event"

\* The paths on which the code does put the completion signal: all but the
\* stop on a long-running call, on which it never does
C26_SentinelUnlessLro ==
    \A e \in DOMAIN execs :
        execs[e].task = "done" =>
            IF C26_StoppedOnLro(e)
            THEN \A i \in 1..Len(PutIn(StepsOf(e))) :
                     ~C26_IsSentinel(PutIn(StepsOf(e))[i])
            ELSE C26_SentinelLast(PutIn(StepsOf(e)))

C26_TaskEnded ==
    \E e \in DOMAIN execs :
        /\ execs[e].task = "done"
        /\ StepsOf(e) # << >>
        /\ StepsOf(e)[Len(StepsOf(e))].op = "end"

(***************************************************************************)
(* C27: unless the drain ends with EXECUTION_TIMEOUT, every event the      *)
(* background task has put on the queue is yielded by _stream_events       *)
(* exactly once and in the order it was put, the events still queued when  *)
(* the task finished without the completion signal included.               *)
(***************************************************************************)
C27_TimedOut(r) ==
    \E i \in 1..Len(runs[r].emitted) :
        /\ runs[r].emitted[i].type = "RUN_ERROR"
        /\ runs[r].emitted[i].id = "EXECUTION_TIMEOUT"

\* The events the task of e has put on its queue
C27_Put(e) == SelectSeq(PutIn(StepsOf(e)), LAMBDA item : item.type # None)

\* The events _stream_events has yielded: those between RUN_STARTED and
\* RUN_FINISHED
C27_Yielded(r) == SubSeq(runs[r].emitted, 2, Len(runs[r].emitted) - 1)

C27_Same(a, b) == a.type = b.type /\ a = b

C27_Drained(r) ==
    /\ SubEnded(r)
    /\ runs[r].exec # 0
    /\ ~C27_TimedOut(r)

C27_YieldedOnceInOrder ==
    \A r \in RunIds :
        C27_Drained(r) =>
            /\ Len(C27_Yielded(r)) = Len(C27_Put(runs[r].exec))
            /\ \A i \in 1..Len(C27_Yielded(r)) :
                   C27_Same(C27_Yielded(r)[i], C27_Put(runs[r].exec)[i])

\* A task that stopped on a long-running call, without the completion
\* signal, and whose three events have been yielded
C27_DrainedAfterLro ==
    \E r \in RunIds :
        /\ C27_Drained(r)
        /\ C26_StoppedOnLro(runs[r].exec)
        /\ Len(C27_Yielded(r)) = 3

(***************************************************************************)
(* C28: once the long-running path has put a TOOL_CALL_END on the queue,   *)
(* the background task terminates: it consumes no further runtime event    *)
(* and puts no further event on the queue (no text, no tool call, no       *)
(* terminal STATE_SNAPSHOT, no completion signal).                         *)
(***************************************************************************)
\* The step consumed an event that went the long-running path and put a
\* TOOL_CALL_END
C28_LroStep(step) ==
    /\ step.op = "event"
    /\ ~RegularPath(step.fed[1])
    /\ HasToolCallEnd(step.put)

C28_LroStopsTask ==
    \A e \in DOMAIN execs :
        \A i \in 1..Len(StepsOf(e)) :
            C28_LroStep(StepsOf(e)[i]) =>
                /\ i = Len(StepsOf(e))
                /\ execs[e].task = "done"
                /\ StepsOf(e)[i].put[Len(StepsOf(e)[i].put)].type = "TOOL_CALL_END"

\* The task has stopped on a long-running call and the sub-execution has
\* gone on to its end
C28_StoppedAndEnded ==
    \E r \in RunIds :
        /\ SubEnded(r)
        /\ runs[r].exec # 0
        /\ StepsOf(runs[r].exec) # << >>
        /\ C28_LroStep(StepsOf(runs[r].exec)[Len(StepsOf(runs[r].exec))])

(***************************************************************************)
(* C29: every function call carried by a runtime event is translated into  *)
(* tool-call events, by the long-running path when its id is in the        *)
(* event's long_running_tool_ids and by the regular path otherwise; no     *)
(* call is dropped, also when an event carries several long-running calls  *)
(* or long-running and other calls.                                        *)
(***************************************************************************)
C29_Started(put, id) ==
    \E i \in 1..Len(put) : put[i].type = "TOOL_CALL_START" /\ put[i].id = id

C29_Ended(put, id) ==
    \E i \in 1..Len(put) : put[i].type = "TOOL_CALL_END" /\ put[i].id = id

C29_CallIds(e) == {e.parts[i].id : i \in {j \in 1..Len(e.parts) : e.parts[j].kind = "fc"}}

C29_EveryCallTranslated ==
    \A k \in 1..Len(out) :
        out[k].op = "event" =>
            \A id \in C29_CallIds(out[k].fed[1]) :
                C29_Started(out[k].put, id) /\ C29_Ended(out[k].put, id)

\* What the code translates: every call of an event without long-running
\* call, and of an event with long-running calls the first of them only
C29_FirstLroId(e) == FirstLro(e.parts, e.lro_ids)[1].id

C29_FirstLroCallOnly ==
    \A k \in 1..Len(out) :
        out[k].op = "event" =>
            \A id \in C29_CallIds(out[k].fed[1]) :
                (C29_Started(out[k].put, id) /\ C29_Ended(out[k].put, id))
                <=> \/ ~HasLroFunctionCall(out[k].fed[1])
                    \/ id = C29_FirstLroId(out[k].fed[1])

\* An event with two long-running calls has been consumed
C29_TwoLroCalls ==
    \E k \in 1..Len(out) :
        /\ out[k].op = "event"
        /\ out[k].fed[1].lro_ids = {"c1", "c2"}
        /\ C29_Started(out[k].put, "c1")

(***************************************************************************)
(* C30: the translator emits TOOL_CALL_RESULT(id) for a function response  *)
(* if and only if id is not in its long_running_tool_ids, and the runtime  *)
(* side never emits a TOOL_CALL_RESULT for a tool call that was emitted as *)
(* long-running, in the same or in a later sub-execution of the thread.    *)
(***************************************************************************)
C30_Result(put, id) ==
    \E i \in 1..Len(put) : put[i].type = "TOOL_CALL_RESULT" /\ put[i].id = id

\* The calls the step has emitted as long-running
C30_LroEmitted(step) ==
    IF C28_LroStep(step)
    THEN {step.put[i].id : i \in {j \in 1..Len(step.put) :
                                      step.put[j].type = "TOOL_CALL_END"}}
    ELSE {}

C30_NoResultForLroCall ==
    \A k \in 1..Len(out) :
        \A id \in C30_LroEmitted(out[k]) :
            \A n \in k..Len(out) : ~C30_Result(out[n].put, id)

\* The same within one background task, which has one translator
C30_NoResultForLroCallSameTask ==
    \A k \in 1..Len(out) :
        \A id \in C30_LroEmitted(out[k]) :
            \A n \in k..Len(out) :
                out[n].exec = out[k].exec => ~C30_Result(out[n].put, id)

\* One translator: translate() answers a function response of an event it
\* processes with TOOL_CALL_RESULT exactly when the id is not in the
\* translator's long_running_tool_ids (SpecTr)
C30_ResultIffNotLro ==
    (last.op = "translate" /\ last.e.author # "user") =>
        \A i \in 1..Len(last.e.parts) :
            last.e.parts[i].kind = "fr" =>
                (C30_Result(LastOut, last.e.parts[i].id)
                 <=> ~InSeq(last.e.parts[i].id, last.tr.long_running_tool_ids))

C30_ResultSuppressed ==
    /\ last.op = "translate"
    /\ last.e.author # "user"
    /\ \E i \in 1..Len(last.e.parts) :
           /\ last.e.parts[i].kind = "fr"
           /\ InSeq(last.e.parts[i].id, last.tr.long_running_tool_ids)

(***************************************************************************)
(* C31: when a sub-execution ends, normally or with an error, the          *)
(* execution registered for its thread_id is marked complete, and the      *)
(* entry is removed from active_executions if and only if the session has  *)
(* no pending tool calls; with pending tool calls the entry stays.         *)
(***************************************************************************)
C31_Ends(r) ==
    /\ runs[r].pc \in {"terminal", "waiting"}
    /\ runs'[r].pc \in {"next", "aborted"}

C31_Step(r) ==
    LET thread == runs[r].input.thread_id
        x == active[thread]
    IN (C31_Ends(r) /\ x # 0) =>
          /\ execs'[x].is_complete
          /\ active'[thread] = (IF HasPending(sm, OrchUser, thread) THEN x ELSE 0)

C32_Registered == {t \in Threads : active[t] # 0}

C32_Stale == {t \in C32_Registered : now - execs[active[t]].start_time > ExecTimeout}

\* The sub-execution of r passes the limit check in this step
C32_Checks(r) == runs[r].pc = "started" /\ runs'[r].pc # "started"

C32_Refused(r) ==
    /\ runs'[r].pc = "terminal"
    /\ runs'[r].emitted = <<RunStarted, RunError("EXECUTION_ERROR")>>
    /\ Len(execs') = Len(execs)

C32_Step(r) ==
    (C32_Checks(r) /\ Cardinality(C32_Registered) >= max_concurrent) =>
        /\ \A t \in C32_Stale :
              /\ active'[t] # active[t]
              /\ execs'[active[t]].task \notin {"created", "running"}
        /\ \A t \in C32_Registered \ C32_Stale :
              active'[t] # active[t] => (t = runs[r].input.thread_id /\ ~C32_Refused(r))
        /\ C32_Refused(r) <=> Cardinality(C32_Registered \ C32_Stale) >= max_concurrent

C32_LimitAfterStaleCleanup == [][\A r \in RunIds : C32_Step(r)]_vars

\* A sub-execution was refused: RUN_STARTED, RUN_ERROR, no task, while the
\* limit is reached by an execution that is not stale
C32_RefusedAtLimit ==
    \E r \in RunIds :
        /\ runs[r].pc = "terminal"
        /\ runs[r].emitted = <<RunStarted, RunError("EXECUTION_ERROR")>>
        /\ runs[r].exec = 0
        /\ Cardinality(C32_Registered) >= max_concurrent
        /\ C32_Stale = {}

\* A sub-execution passed the limit after a stale entry had been removed:
\* the execution of the thread's earlier sub-execution is no longer
\* registered and its successor is
C32_StartedAfterCleanup ==
    \E r \in RunIds :
        /\ runs[r].pc = "draining"
        /\ max_concurrent = 1
        /\ runs[r].exec = 2
        /\ active["s1"] = 2
        /\ now - execs[1].start_time > ExecTimeout
        /\ execs[2].start_time = now

(***************************************************************************)
(* C33: in a cleanup pass every tracked session whose age exceeds the      *)
(* timeout and whose pending_tool_calls is empty is archived to the memory *)
(* store before it is deleted from the store, and afterwards it is no      *)
(* longer tracked (not in session_keys, not in its user's key set, ledger  *)
(* dropped); sessions younger than the timeout stay tracked and are not    *)
(* deleted.                                                                *)
(***************************************************************************)
C33_Age(u, sid) == now - GetSession(sm, u, sid).last_update_time

C33_Expired(u, sid) ==
    /\ GetSession(sm, u, sid).exists
    /\ C33_Age(u, sid) > Timeout
    /\ PendingOf(GetSession(sm, u, sid).state) = << >>

C33_Young(u, sid) ==
    /\ GetSession(sm, u, sid).exists
    /\ C33_Age(u, sid) <= Timeout

C33_Untracked(u, sid) ==
    /\ <<u, sid>> \in sm'.archived
    /\ MakeSessionKey(App, sid) \notin sm'.session_keys
    /\ MakeSessionKey(App, sid) \notin sm'.user_sessions[u]
    /\ GetProcessedMessageIds(sm', App, sid) = {}

C33_Kept(u, sid) ==
    /\ Tracked(sm', u, sid)
    /\ GetSession(sm', u, sid) = GetSession(sm, u, sid)

C33_Pass(u, sid) ==
    (sm'.op = "cleanup" /\ Tracked(sm, u, sid)) =>
        /\ C33_Expired(u, sid) =>
              C33_Untracked(u, sid) /\ ~GetSession(sm', u, sid).exists
        /\ C33_Young(u, sid) => C33_Kept(u, sid)

C33_CleanupExpiresOldOnly ==
    [][\A u \in Users, sid \in Sids : C33_Pass(u, sid)]_vars

\* No other user tracks the key of (u, sid)
C33_Unshared(u, sid) ==
    \A v \in Users \ {u} : MakeSessionKey(App, sid) \notin sm.user_sessions[v]

\* What the pass does for a session whose key no other user tracks: a
\* young session is kept; an expired one is archived and untracked, its
\* stored session remaining only when the store's delete failed, or is
\* left as it was when the store's get failed
C33_PassUnshared(u, sid) ==
    (sm'.op = "cleanup" /\ Tracked(sm, u, sid) /\ C33_Unshared(u, sid)) =>
        /\ C33_Expired(u, sid) =>
              \/ C33_Untracked(u, sid)
              \/ C33_Kept(u, sid) /\ <<u, sid>> \notin sm'.archived
        /\ C33_Young(u, sid) => C33_Kept(u, sid)

C33_CleanupExpiresOldOnlyUnshared ==
    [][\A u \in Users, sid \in Sids : C33_PassUnshared(u, sid)]_vars

\* A pass has archived, deleted and untracked an expired session
C33_ExpiredGone ==
    /\ sm.op = "cleanup"
    /\ <<"u1", "s1">> \in sm.archived
    /\ ~GetSession(sm, "u1", "s1").exists
    /\ ~Tracked(sm, "u1", "s1")

(***************************************************************************)
(* C34: force_close_streaming_message is idempotent.  It emits exactly one *)
(* TEXT_MESSAGE_END carrying the open stream's message id if and only if a *)
(* stream is open, leaves the translator with no open stream, and a second *)
(* call right after emits nothing and changes no state.                    *)
(***************************************************************************)
C34_FirstCall ==
    last.op = "force_close" =>
        /\ IF last.tr.is_streaming
           THEN LastOut = <<Ev("TEXT_MESSAGE_END", last.tr.streaming_message_id, << >>)>>
           ELSE LastOut = << >>
        /\ ~tr.is_streaming
        /\ ~(tr.streaming_message_id # None)

C34_SecondCall ==
    (prev.op = "force_close" /\ last.op = "force_close") =>
        /\ LastOut = << >>
        /\ tr = last.tr

C34_ForceCloseIdempotent == C34_FirstCall /\ C34_SecondCall

\* Two calls in a row, the first of which closed an open stream
C34_ClosedThenNothing ==
    /\ prev.op = "force_close"
    /\ last.op = "force_close"
    /\ prev.tr.is_streaming
    /\ Len(PrevOut) = 1
    /\ PrevOut[1].type = "TEXT_MESSAGE_END"
    /\ LastOut = << >>

(***************************************************************************)
(* C35: when an is_final_response event with content arrives while a text *)
(* stream is open, the text handling emits only TEXT_MESSAGE_END for the   *)
(* open stream's message id, no TEXT_MESSAGE_START or TEXT_MESSAGE_CONTENT *)
(* for that event (its text is not re-emitted), and it leaves the          *)
(* translator with is_streaming false and no streaming message id.         *)
(***************************************************************************)
C35_IsText(x) == x.type \in TextTypes

\* The last call translated a final response with content while a stream
\* was open
C35_FinalOnOpenStream ==
    /\ last.op = "translate"
    /\ last.e.author # "user"
    /\ last.e.final
    /\ last.e.parts # << >>
    /\ last.tr.is_streaming

C35_FinalClosesWithoutReemit ==
    C35_FinalOnOpenStream =>
        /\ SelectSeq(LastOut, C35_IsText)
              = <<Ev("TEXT_MESSAGE_END", last.tr.streaming_message_id, << >>)>>
        /\ ~tr.is_streaming
        /\ ~(tr.streaming_message_id # None)

\* A final response carrying the text "a" closed an open stream
C35_FinalWithTextClosed ==
    /\ C35_FinalOnOpenStream
    /\ CombinedText(last.e.parts) = TA
    /\ Len(LastOut) = 1
    /\ LastOut[1].type = "TEXT_MESSAGE_END"

(***************************************************************************)
(* C37: when a sub-execution has emitted its terminal event and its entry  *)
(* has been removed from active_executions, its background task is no      *)
(* longer running: no task keeps calling the runner or mutating the        *)
(* session after its sub-execution ended, including when the drain stopped *)
(* with EXECUTION_TIMEOUT.                                                 *)
(***************************************************************************)
\* The sub-execution that started execution e is over (its finally block
\* has run) and e is not registered
C37_EndedAndRemoved(e) ==
    /\ runs[execs[e].run].exec # e
    /\ active[execs[e].thread_id] # e

C37_NoTaskAfterEnd ==
    \A e \in DOMAIN execs : C37_EndedAndRemoved(e) => TaskDone(execs[e])

\* The same for the sub-executions that did not stop on a stale execution
C37_NoTaskAfterEndInTime ==
    \A e \in DOMAIN execs :
        (C37_EndedAndRemoved(e) /\ ~IsStale(execs[e], now)) => TaskDone(execs[e])

\* A task whose sub-execution ended with EXECUTION_TIMEOUT takes a step
C37_TaskStepsAfterEnd ==
    \E n \in 1..Len(out) :
        /\ out[n].op = "event"
        /\ runs[execs[out[n].exec].run].exec # out[n].exec
        /\ active[execs[out[n].exec].thread_id] # out[n].exec

(***************************************************************************)
(* C38: the session registry stays consistent after any sequence of        *)
(* get_or_create_session, quota evictions and cleanup passes: session_keys *)
(* equals the union of all per-user key sets, no user has an empty key     *)
(* set, and every ledger key belongs to a tracked session or to one not    *)
(* yet created; also when the same (app_name, session_id) is used by two   *)
(* users and when a store delete fails.                                    *)
(***************************************************************************)
C38_KeysAreUnion ==
    sm.session_keys = UNION {sm.user_sessions[u] : u \in Users}

\* The users of the _user_sessions dict are those of user_order
C38_NoEmptyKeySet ==
    \A u \in Users : InSeq(u, sm.user_order) <=> sm.user_sessions[u] # {}

C38_Created(key) == \E u \in Users : GetSession(sm, u, KeySid(key)).exists

C38_LedgerKeys ==
    \A key \in SessionKeys :
        sm.processed_message_ids[key] # {} =>
            key \in sm.session_keys \/ ~C38_Created(key)

C38_RegistryConsistent ==
    C38_KeysAreUnion /\ C38_NoEmptyKeySet /\ C38_LedgerKeys

\* Two users track the same key
C38_SharedKey ==
    \E key \in SessionKeys : \A u \in Users : key \in sm.user_sessions[u]

(***************************************************************************)
(* C39: a non-streamed final response is suppressed as a duplicate only    *)
(* when its text equals the text of the text stream that was closed most   *)
(* recently in the same run: after a later stream has been opened and      *)
(* closed by force_close_streaming_message, a final response is never      *)
(* suppressed on the basis of an older stream's text.                      *)
(***************************************************************************)
\* The last call translated a final response while no stream was open and
\* yielded no text event for it
C39_Suppressed ==
    /\ last.op = "translate"
    /\ last.e.author # "user"
    /\ last.e.final
    /\ last.e.parts # << >>
    /\ ~last.tr.is_streaming
    /\ SelectSeq(LastOut, C35_IsText) = << >>

\* The positions in s of the TEXT_MESSAGE_END events of streams (a stream's
\* message id is drawn by the translator, a non-streamed message carries
\* the id of its event)
C39_StreamEnds(s) ==
    {i \in 1..Len(s) : s[i].type = "TEXT_MESSAGE_END" /\ s[i].id[1] = "m"}

C39_Before == SubSeq(out, 1, last.from)

C39_LastStreamEnd ==
    CHOOSE i \in C39_StreamEnds(C39_Before) :
        \A j \in C39_StreamEnds(C39_Before) : j <= i

C39_SuppressedByLatestStream ==
    C39_Suppressed =>
        /\ C39_StreamEnds(C39_Before) # {}
        /\ StreamDeltas(C39_Before, C39_Before[C39_LastStreamEnd].id)
              = CombinedText(last.e.parts)

\* What the translator compares: the snapshot it took when a stream was
\* last closed by an event of the run
C39_SuppressedBySnapshot ==
    C39_Suppressed =>
        /\ last.tr.last_streamed_run_id = last.run_id
        /\ last.tr.last_streamed_text # None
        /\ last.tr.last_streamed_text = CombinedText(last.e.parts)

\* A final response "a" is suppressed right after force_close closed a
\* stream whose text is "b"
C39_SuppressedAfterForceClose ==
    /\ C39_Suppressed
    /\ prev.op = "force_close"
    /\ Len(PrevOut) = 1
    /\ StreamDeltas(C39_Before, PrevOut[1].id) = TB
    /\ CombinedText(last.e.parts) = TA

(***************************************************************************)
(* C40: after any sequence of translate, translate_lro_function_calls,     *)
(* force_close_streaming_message and reset calls on a fresh translator,    *)
(* is_streaming is true exactly when streaming_message_id is set; while a  *)
(* stream is open current_stream_text is non-empty and is the              *)
(* concatenation of the deltas emitted for it; every TEXT_MESSAGE_CONTENT  *)
(* carries the id of the most recent unclosed TEXT_MESSAGE_START and a     *)
(* non-empty delta; the chunks of one open stream produce one              *)
(* TEXT_MESSAGE_START, and a stream started after an END gets a different  *)
(* message id.                                                             *)
(***************************************************************************)
C40_FlagIffId == tr.is_streaming <=> (tr.streaming_message_id # None)

C40_OpenText ==
    tr.is_streaming =>
        /\ tr.current_stream_text # << >>
        /\ tr.current_stream_text = StreamDeltas(out, tr.streaming_message_id)

\* The TEXT_MESSAGE_START events before position i that no TEXT_MESSAGE_END
\* of their message has followed yet
C40_Unclosed(i) ==
    {j \in 1..(i - 1) :
        /\ out[j].type = "TEXT_MESSAGE_START"
        /\ ~\E k \in (j + 1)..(i - 1) :
              out[k].type = "TEXT_MESSAGE_END" /\ out[k].id = out[j].id}

C40_Contents == {i \in 1..Len(out) : out[i].type = "TEXT_MESSAGE_CONTENT"}

C40_ContentId ==
    \A i \in C40_Contents :
        /\ C40_Unclosed(i) # {}
        /\ \A j \in C40_Unclosed(i) :
              (\A j2 \in C40_Unclosed(i) : j2 <= j) => out[i].id = out[j].id

C40_ContentDelta == \A i \in C40_Contents : out[i].delta # << >>

C40_Starts == {i \in 1..Len(out) : out[i].type = "TEXT_MESSAGE_START"}

\* No message id is started twice: a second chunk of an open stream yields
\* no START, and a later stream draws another id
C40_OneStartPerId ==
    \A i \in C40_Starts : \A j \in C40_Starts : out[i].id = out[j].id => i = j

C40_StreamedContentDelta ==
    \A i \in C40_Contents : out[i].id[1] = "m" => out[i].delta # << >>

C40_TranslatorInvariantsStreamed ==
    /\ C40_FlagIffId
    /\ C40_OpenText
    /\ C40_ContentId
    /\ C40_StreamedContentDelta
    /\ C40_OneStartPerId

\* A final response without text was translated while no stream was open
\* and was sent as a message whose delta is empty
C40_EmptyFinalSent ==
    /\ last.op = "translate"
    /\ last.e.final
    /\ ~HasTextParts(last.e.parts)
    /\ ~last.tr.is_streaming
    /\ \E i \in 1..Len(LastOut) :
          LastOut[i].type = "TEXT_MESSAGE_CONTENT" /\ LastOut[i].delta = << >>

(***************************************************************************)
(* _start_new_execution at the granularity of the event loop, for run()    *)
(* invocations on distinct threads.  A coroutine runs until it suspends:   *)
(* on a yield to its caller, on an execution lock that is held or has      *)
(* waiters (asyncio.Lock is handed to its waiters in order), or on the     *)
(* injected session store that _has_pending_tool_calls awaits inside the   *)
(* finally block.  The runner yields no event and the clock stands still,  *)
(* so no execution is stale and no thread has an earlier execution to      *)
(* wait for.                                                               *)
(***************************************************************************)
ThreadsLock == {"s1", "s2", "s3"}
RunIdsLock == {"r1", "r2", "r3"}
ThreadOf(r) == CASE r = "r1" -> "s1" [] r = "r2" -> "s2" [] OTHER -> "s3"
InputsLock(r) == {RunInput(ThreadOf(r), <<U1>>)}

\* asyncio.Lock.acquire returns at once only when the lock is free and
\* nobody waits for it; otherwise the caller queues and suspends
CanAcquire(l) == l.holder = None /\ l.waiters = << >>
Acquire(l, r) == [l EXCEPT !.holder = r]
Enqueue(l, r) == [l EXCEPT !.waiters = Append(@, r)]

\* asyncio.Lock.release wakes the first waiter, which owns the lock when it
\* resumes: until then every other acquire queues behind it
Release(l) ==
    IF l.waiters = << >> THEN Unlocked
    ELSE [holder |-> Head(l.waiters), waiters |-> Tail(l.waiters)]

Registered == {t \in ThreadsLock : active[t] # 0}

InitLock ==
    /\ tr = NewTranslator
    /\ out = << >>
    /\ last = NoStep
    /\ prev = NoStep
    /\ sm = [NewSessionManager EXCEPT !.max_per_user = 0]
    /\ now = 0
    /\ runs = [r \in RunIdsLock |-> NewRun]
    /\ execs = << >>
    /\ active = [t \in ThreadsLock |-> 0]
    /\ session_lookup_cache = [t \in ThreadsLock |-> None]
    /\ max_concurrent \in MaxConcurrentChoices
    /\ execution_lock = Unlocked

\* _start_new_execution, lines 721-751, by the run that holds the lock l:
\* the limit check (no execution is stale), the release, the start of the
\* background execution, and the registration under the lock taken again,
\* at once when nobody waits for it
CheckAndStart(r, l) ==
    LET rec == runs[r]
        thread == rec.input.thread_id
        released == Release(l)
        e == Len(execs) + 1
    IN IF Cardinality(Registered) >= max_concurrent
       THEN /\ runs' = [runs EXCEPT ![r].pc = "terminal",
                                    ![r].emitted = Append(@, RunError("EXECUTION_ERROR"))]
            /\ execution_lock' = released
            /\ UNCHANGED <<execs, active>>
       ELSE IF active[thread] # 0 /\ ~execs[active[thread]].is_complete
       THEN /\ runs' = [runs EXCEPT ![r].pc = "waiting", ![r].waits = active[thread]]
            /\ execution_lock' = released
            /\ UNCHANGED <<execs, active>>
       ELSE /\ execs' = Append(execs, NewExecution(rec, r, now))
            /\ IF CanAcquire(released)
               THEN /\ active' = [active EXCEPT ![thread] = e]
                    /\ execution_lock' = released
                    /\ runs' = [runs EXCEPT ![r].pc = "draining", ![r].exec = e,
                                            ![r].waits = 0]
               ELSE /\ execution_lock' = Enqueue(released, r)
                    /\ runs' = [runs EXCEPT ![r].pc = "registering", ![r].exec = e,
                                            ![r].waits = 0]
                    /\ UNCHANGED active

\* The generator is resumed after RUN_STARTED and reaches line 721
LockCheck(r) ==
    /\ runs[r].pc = "started"
    /\ UNCHANGED <<trVars, smVars, session_lookup_cache, max_concurrent>>
    /\ IF CanAcquire(execution_lock)
       THEN CheckAndStart(r, Acquire(execution_lock, r))
       ELSE /\ runs' = [runs EXCEPT ![r].pc = "checking"]
            /\ execution_lock' = Enqueue(execution_lock, r)
            /\ UNCHANGED <<execs, active>>

\* The run that waited at line 721 is woken with the lock
LockChecked(r) ==
    /\ runs[r].pc = "checking"
    /\ execution_lock.holder = r
    /\ UNCHANGED <<trVars, smVars, session_lookup_cache, max_concurrent>>
    /\ CheckAndStart(r, execution_lock)

\* The run that waited at line 750 is woken with the lock and registers
\* its execution
LockRegister(r) ==
    /\ runs[r].pc = "registering"
    /\ execution_lock.holder = r
    /\ UNCHANGED <<trVars, smVars, execs, session_lookup_cache, max_concurrent>>
    /\ active' = [active EXCEPT ![runs[r].input.thread_id] = runs[r].exec]
    /\ execution_lock' = Release(execution_lock)
    /\ runs' = [runs EXCEPT ![r].pc = "draining"]

\* The finally block, lines 805-816, by the run that holds the lock l: with
\* an execution registered for the thread and the session's user known,
\* _has_pending_tool_calls awaits the session store, which may suspend the
\* run while it holds the lock
FinallyLocked(r, l) ==
    LET rec == runs[r]
        thread == rec.input.thread_id
        end == EndExecution(execs, active, session_lookup_cache, sm, thread)
    IN \E suspends \in BOOLEAN :
         /\ suspends =>
               /\ active[thread] # 0
               /\ GetSessionMetadata(session_lookup_cache, sm, thread) # None
         /\ session_lookup_cache' =
                IF active[thread] # 0
                THEN CacheLookup(session_lookup_cache, sm, thread)
                ELSE session_lookup_cache
         /\ IF suspends
            THEN /\ execs' = [execs EXCEPT ![active[thread]].is_complete = TRUE]
                 /\ execution_lock' = l
                 /\ runs' = [runs EXCEPT ![r].pc = "has_pending"]
                 /\ UNCHANGED active
            ELSE /\ execs' = end.execs
                 /\ active' = end.active
                 /\ execution_lock' = Release(l)
                 /\ runs' = [runs EXCEPT ![r] = EndSub(rec, "next")]

\* The generator is resumed after its last event and reaches line 805
LockFinally(r) ==
    /\ runs[r].pc = "terminal"
    /\ UNCHANGED <<trVars, smVars, max_concurrent>>
    /\ IF CanAcquire(execution_lock)
       THEN FinallyLocked(r, Acquire(execution_lock, r))
       ELSE /\ runs' = [runs EXCEPT ![r].pc = "finalizing"]
            /\ execution_lock' = Enqueue(execution_lock, r)
            /\ UNCHANGED <<execs, active, session_lookup_cache>>

\* The run that waited at line 805 is woken with the lock
LockFinallyWoken(r) ==
    /\ runs[r].pc = "finalizing"
    /\ execution_lock.holder = r
    /\ UNCHANGED <<trVars, smVars, max_concurrent>>
    /\ FinallyLocked(r, execution_lock)

\* The session store answers: lines 811-816, and the lock is released
LockHasPending(r) ==
    LET rec == runs[r]
        end == EndExecution(execs, active, session_lookup_cache, sm,
                            rec.input.thread_id)
    IN
    /\ rec.pc = "has_pending"
    /\ execution_lock.holder = r
    /\ UNCHANGED <<trVars, smVars, session_lookup_cache, max_concurrent>>
    /\ execs' = end.execs
    /\ active' = end.active
    /\ execution_lock' = Release(execution_lock)
    /\ runs' = [runs EXCEPT ![r] = EndSub(rec, "next")]

NextLock ==
    \/ \E r \in RunIdsLock : RunStartIn(r, InputsLock(r))
    \/ \E r \in RunIdsLock : NextBatch(r)
    \/ \E r \in RunIdsLock : LockCheck(r)
    \/ \E r \in RunIdsLock : LockChecked(r)
    \/ \E r \in RunIdsLock : LockRegister(r)
    \/ \E r \in RunIdsLock : Drain(r)
    \/ \E r \in RunIdsLock : Finish(r)
    \/ \E r \in RunIdsLock : LockFinally(r)
    \/ \E r \in RunIdsLock : LockFinallyWoken(r)
    \/ \E r \in RunIdsLock : LockHasPending(r)
    \/ \E e \in DOMAIN execs : TaskInit(e)
    \/ \E e \in DOMAIN execs : TaskEnd(e)

SpecLock == InitLock /\ [][NextLock]_vars

(***************************************************************************)
(* C36: the number of entries of active_executions never exceeds           *)
(* max_concurrent, in any interleaving of concurrent run() invocations on  *)
(* distinct threads.                                                       *)
(***************************************************************************)
C36_WithinLimit == Cardinality(Registered) <= max_concurrent

\* What the lock gives: a run passes the check of line 722 only while
\* fewer than max_concurrent executions are registered
C36_PassesCheck(r) ==
    /\ runs[r].pc \in {"started", "checking"}
    /\ runs'[r].pc \in {"registering", "draining"}

C36_CheckedBelowLimit ==
    [][\A r \in RunIdsLock :
          C36_PassesCheck(r) => Cardinality(Registered) < max_concurrent]_vars

\* The limit is exceeded only by the registration of a run that had to
\* wait for the lock at line 750, after its check
C36_ExceededOnlyByQueuedRegistration ==
    [][(C36_WithinLimit /\ ~C36_WithinLimit') =>
          \E r \in RunIdsLock :
              runs[r].pc = "registering" /\ runs'[r].pc = "draining"]_vars

====
